---------------------------- MODULE Spec2Model ----------------------------
(***************************************************************************)
(* Model of the cryptocurrency classifier (package `classifier`):          *)
(* the known-scam registry (baza_prevar.py), the rule tables of the three  *)
(* analyzers and the scam detector (analizatorji.py), the aggregation and  *)
(* classification pipeline of KriptoKlasifikator (klasifikator.py), and    *)
(* the provider's payload check (api_klient.py).                           *)
(*                                                                         *)
(* Conventions.                                                            *)
(*  - A Python str is a sequence of one-character strings, so that         *)
(*    lower(), replace() and the `in` substring test are computed.         *)
(*  - A dict entry that the code reads with .get(key, default) is a        *)
(*    tagged value [t, v] with t in {"absent", "null", "val"}: the key is  *)
(*    missing, holds None, or holds v.  A numeric leaf that the code only  *)
(*    reads through an `or` chain is a plain integer, 0 standing for       *)
(*    missing, None and zero alike (all are falsy).                        *)
(*  - Sub-scores are in tenths (8.5 -> 85), weights in hundredths, axis    *)
(*    scores in hundredths (axis * 100), the fraud probability in points   *)
(*    (probability * 100) and the final score in units of 1/2000000        *)
(*    (koncna * 2 * 10^6), which keeps the whole pipeline in exact integer *)
(*    arithmetic.                                                          *)
(*  - Volumes are in units of 100 USD, market caps in units of 10000 USD,  *)
(*    ATH change in tenths of a percent, ages in days.                     *)
(***************************************************************************)
EXTENDS Integers, Sequences, FiniteSets, TLC

VARIABLES
  baza,             \* UpravljalecBazePrevar.znane_prevare, in insertion order
  pc,               \* position inside klasificiraj
  identifikator,    \* argument of the running klasificiraj call
  odgovor,          \* what the provider's HTTP calls returned for this call
  podatki,          \* payload returned by the provider
  indikatorji,      \* IndikatorjiPrevare of the running call
  koncna,           \* local `koncna` of klasificiraj (penalised, unrounded)
  rezultat,         \* value returned (or exception raised) by klasificiraj
  klici,            \* collaborator and analyzer calls made by the running call
  identifikatorji,  \* argument of batch_analiziraj
  rezultati,        \* list built by batch_analiziraj
  zdaj,             \* datetime.now(), as a day number
  _max_ponovitev    \* CoinGeckoKlient._max_ponovitev of the client in use

vars == <<baza, pc, identifikator, odgovor, podatki, indikatorji, koncna,
          rezultat, klici, identifikatorji, rezultati, zdaj,
          _max_ponovitev>>

--------------------------------------------------------------------------
(* Python strings                                                          *)

VelikeCrke == <<"A","B","C","D","E","F","G","H","I","J","K","L","M",
                "N","O","P","Q","R","S","T","U","V","W","X","Y","Z">>
MaleCrke   == <<"a","b","c","d","e","f","g","h","i","j","k","l","m",
                "n","o","p","q","r","s","t","u","v","w","x","y","z">>

LowerChar(c) ==
  IF \E i \in 1..26 : VelikeCrke[i] = c
  THEN MaleCrke[CHOOSE i \in 1..26 : VelikeCrke[i] = c]
  ELSE c

UpperChar(c) ==
  IF \E i \in 1..26 : MaleCrke[i] = c
  THEN VelikeCrke[CHOOSE i \in 1..26 : MaleCrke[i] = c]
  ELSE c

\* str.lower()
Lower(s) == [i \in 1..Len(s) |-> LowerChar(s[i])]

\* str.upper()
Upper(s) == [i \in 1..Len(s) |-> UpperChar(s[i])]

\* str.replace(a, b) for one-character a and b
Replace(s, a, b) == [i \in 1..Len(s) |-> IF s[i] = a THEN b ELSE s[i]]

\* the substring test `sub in s`
Vsebuje(s, sub) ==
  \E k \in 0..(Len(s) - Len(sub)) :
     \A i \in 1..Len(sub) : s[k + i] = sub[i]

\* tagged dict entries
Absent(d) == [t |-> "absent", v |-> d]
Null(d)   == [t |-> "null",   v |-> d]
Val(x)    == [t |-> "val",    v |-> x]

\* d.get(key, default) for an entry that, when present, is never None
GetOr(e, default) == IF e.t = "val" THEN e.v ELSE default

\* AnalizatorMetrik.analiziraj_prevare: sumljiva_imena
sumljiva_imena ==
  << <<"s","a","f","e">>,
     <<"m","o","o","n">>,
     <<"e","l","o","n">>,
     <<"d","o","g","e">>,
     <<"s","h","i","b","a">>,
     <<"i","n","u">>,
     <<"b","a","b","y">>,
     <<"m","i","n","i">>,
     <<"f","l","o","k","i">>,
     <<"1","0","0","x">>,
     <<"1","0","0","0","x">>,
     <<"r","o","c","k","e","t">>,
     <<"g","e","m">> >>

\* AnalizatorMetrik.analiziraj_prevare: rdece_fraze
rdece_fraze ==
  << <<"g","u","a","r","a","n","t","e","e","d"," ","r","e","t","u","r","n">>,
     <<"r","i","s","k"," ","f","r","e","e">>,
     <<"1","0","0","x">>,
     <<"1","0","0","0","x">>,
     <<"n","e","x","t"," ","b","i","t","c","o","i","n">>,
     <<"g","e","t"," ","r","i","c","h">>,
     <<"p","a","s","s","i","v","e"," ","i","n","c","o","m","e">>,
     <<"d","o","n","t"," ","m","i","s","s">>,
     <<"d","o","n","'","t"," ","m","i","s","s">>,
     <<"l","i","m","i","t","e","d"," ","t","i","m","e">> >>

S_passive_income == <<"p","a","s","s","i","v","e"," ","i","n","c","o","m","e">>
S_guaranteed == <<"g","u","a","r","a","n","t","e","e","d">>
S_layer_1 == <<"l","a","y","e","r"," ","1">>
S_layer_0 == <<"l","a","y","e","r"," ","0">>
S_layer1 == <<"l","a","y","e","r","-","1">>
S_layer0 == <<"l","a","y","e","r","-","0">>
S_smart_contract_platform == <<"s","m","a","r","t"," ","c","o","n","t","r","a","c","t"," ","p","l","a","t","f","o","r","m">>
S_proof_of_stake == <<"p","r","o","o","f"," ","o","f"," ","s","t","a","k","e">>
S_proof_of_work == <<"p","r","o","o","f"," ","o","f"," ","w","o","r","k">>
S_blockchain == <<"b","l","o","c","k","c","h","a","i","n">>
S_protocol == <<"p","r","o","t","o","c","o","l">>
S_infrastructure == <<"i","n","f","r","a","s","t","r","u","c","t","u","r","e">>
S_ecosystem == <<"e","c","o","s","y","s","t","e","m">>
S_token == <<"t","o","k","e","n">>
S_erc == <<"e","r","c">>
S_bep == <<"b","e","p">>
S_none == <<"n","o","n","e">>

--------------------------------------------------------------------------
(* Known-scam registry: baza_prevar.py                                     *)

\* position of key k in the registry, 0 when it is no key
Polozaj(b, k) ==
  IF \E i \in 1..Len(b) : b[i].kljuc = k
  THEN CHOOSE i \in 1..Len(b) : b[i].kljuc = k
  ELSE 0

\* `normaliziran` of je_znana_prevara
Normaliziraj(id) == Replace(Replace(Lower(id), " ", "-"), "_", "-")

\* the three key variants je_znana_prevara tries, in order
Variante(id) == <<Normaliziraj(id), Lower(id), id>>

\* the second loop of je_znana_prevara: records whose name or symbol equals
\* the lowercased identifier
UjemanjePoVrednosti(b, id) ==
  { i \in 1..Len(b) :
      \/ Lower(GetOr(b[i].zapis.name, <<>>)) = Lower(id)
      \/ Lower(GetOr(b[i].zapis.symbol, <<>>)) = Lower(id) }

Najmanjsi(S) == CHOOSE i \in S : \A j \in S : i <= j

\* UpravljalecBazePrevar.je_znana_prevara: [najden, zapis]
NiZapisa ==
  [ name |-> Absent(<<>>), symbol |-> Absent(<<>>), scam_type |-> Absent(<<>>),
    score |-> Absent(0), grade |-> Absent(""), red_flags |-> Absent(<<>>) ]

je_znana_prevara(b, id) ==
  LET v == Variante(id)
      zadetki == { n \in 1..3 : Polozaj(b, v[n]) > 0 }
  IN  IF zadetki # {}
      THEN [najden |-> TRUE, zapis |-> b[Polozaj(b, v[Najmanjsi(zadetki)])].zapis]
      ELSE IF UjemanjePoVrednosti(b, id) # {}
      THEN [najden |-> TRUE, zapis |-> b[Najmanjsi(UjemanjePoVrednosti(b, id))].zapis]
      ELSE [najden |-> FALSE, zapis |-> NiZapisa]

\* UpravljalecBazePrevar.dodaj_prevaro: znane_prevare[id.lower()] = record
dodaj_prevaro(b, id, zapis) ==
  LET k == Lower(id)
  IN  IF Polozaj(b, k) > 0
      THEN [b EXCEPT ![Polozaj(b, k)].zapis = zapis]
      ELSE Append(b, [kljuc |-> k, zapis |-> zapis])

--------------------------------------------------------------------------
(* Payload returned by CoinGeckoKlient.pridobi_podatke_kovanca:            *)
(* {'basic_info': ..., 'market_data': ..., 'coin_id': ...}                 *)

\* the markets entry (`trzni`); {} when the markets call returned nothing
PraznoTrzni ==
  [ market_cap_rank |-> 0, market_cap |-> 0, total_volume |-> 0,
    max_supply |-> 0, circulating_supply |-> 0, ath_change_percentage |-> 0,
    price_change_percentage_7d_in_currency |-> 0,
    price_change_percentage_30d_in_currency |-> 0 ]

\* basic_info['market_data'] (`trzni_info`); market_cap, total_volume and
\* ath_change_percentage are dicts keyed by currency, v being their 'usd'
PraznoTrzniInfo ==
  [ market_cap_rank |-> 0, market_cap |-> Absent(0), total_volume |-> Absent(0),
    max_supply |-> 0, circulating_supply |-> 0,
    ath_change_percentage |-> Absent(0),
    price_change_percentage_7d |-> 0, price_change_percentage_30d |-> 0 ]

PraznePovezave ==
  [ github |-> 0,                 \* len(links.repos_url.github)
    blockchain_site |-> <<>>,     \* per entry: is the url non-empty
    homepage |-> <<>>,
    whitepaper |-> FALSE,         \* bool(links.whitepaper)
    chat_url |-> <<>>,
    official_forum_url |-> <<>> ]

PrazenRazvoj == [ stars |-> 0, forks |-> 0, commit_count_4_weeks |-> 0 ]

PraznaSkupnost ==
  [ twitter_followers |-> 0, reddit_subscribers |-> 0,
    telegram_channel_user_count |-> 0, reddit_accounts_active_48h |-> 0 ]

\* description['en']: `text` followed by `pad` filler characters that occur
\* in none of the patterns the code searches for
BrezBesedila == [ text |-> <<>>, pad |-> 0 ]
BrezOpisa == Absent(BrezBesedila)

\* the day the classifier is constructed; day numbers count from it
Danes == 0

\* genesis_date: t = "none" (missing, None or ''), "bad" (not an ISO date),
\* "date" (parsed; dan = the day number of the date)
BrezGeneze == [ t |-> "none", dan |-> 0 ]

\* a genesis date `days` days before Danes
Geneza(days) == [ t |-> "date", dan |-> Danes - days ]

PrazenOsnovni ==
  [ name |-> Absent(<<>>),
    description |-> Absent(BrezOpisa),
    categories |-> <<>>,
    genesis_date |-> BrezGeneze,
    links |-> PraznePovezave,
    developer_data |-> PrazenRazvoj,
    community_data |-> PraznaSkupnost,
    sentiment_votes_up_percentage |-> 0,
    market_data |-> Absent(PraznoTrzniInfo) ]

\* `x.get('market_data', {}) or {}`
TrzniInfo(p) ==
  IF p.basic_info.market_data.t = "val"
  THEN p.basic_info.market_data.v ELSE PraznoTrzniInfo

\* d.get(key, {}).get('usd') raises AttributeError when d[key] is None
UsdRaises(e) == e.t = "null"
Usd(e) == IF e.t = "val" THEN e.v ELSE 0

\* AnalizatorMetrik._dobi_rang
_dobi_rang(p) ==
  IF p.market_data.market_cap_rank # 0 THEN p.market_data.market_cap_rank
  ELSE IF TrzniInfo(p).market_cap_rank # 0 THEN TrzniInfo(p).market_cap_rank
  ELSE 9999

\* AnalizatorMetrik._dobi_trzno_kap
_dobi_trzno_kap_raises(p) ==
  p.market_data.market_cap = 0 /\ UsdRaises(TrzniInfo(p).market_cap)

_dobi_trzno_kap(p) ==
  IF p.market_data.market_cap # 0 THEN p.market_data.market_cap
  ELSE Usd(TrzniInfo(p).market_cap)

\* AnalizatorMetrik._dobi_volumen
_dobi_volumen_raises(p) ==
  p.market_data.total_volume = 0 /\ UsdRaises(TrzniInfo(p).total_volume)

_dobi_volumen(p) ==
  IF p.market_data.total_volume # 0 THEN p.market_data.total_volume
  ELSE Usd(TrzniInfo(p).total_volume)

\* AnalizatorMetrik._izracunaj_starost, in days (the code divides by 365):
\* (datetime.now() - geneza).days
_izracunaj_starost(g) == IF g.t = "date" THEN zdaj - g.dan ELSE 0

Leta(n) == 365 * n

\* the rank bands analiziraj_tehnicne uses when the age is 0
StarostTehnicne(p) ==
  LET rang == _dobi_rang(p)
      starost == _izracunaj_starost(p.basic_info.genesis_date)
  IN  IF starost # 0 THEN starost
      ELSE IF rang <= 10 THEN Leta(8)
      ELSE IF rang <= 20 THEN Leta(6)
      ELSE IF rang <= 50 THEN Leta(4)
      ELSE IF rang <= 100 THEN Leta(3)
      ELSE IF rang <= 200 THEN Leta(2)
      ELSE Leta(1)

\* the rank bands analiziraj_ekonomske uses when the age is 0
StarostEkonomske(p) ==
  LET rang == _dobi_rang(p)
      starost == _izracunaj_starost(p.basic_info.genesis_date)
  IN  IF starost # 0 THEN starost
      ELSE IF rang <= 10 THEN Leta(8)
      ELSE IF rang <= 20 THEN Leta(6)
      ELSE IF rang <= 50 THEN Leta(4)
      ELSE IF rang <= 100 THEN Leta(3)
      ELSE Leta(2)

\* the rank bands analiziraj_socialne uses when the age is 0
StarostSocialne(p) ==
  LET rang == _dobi_rang(p)
      starost == _izracunaj_starost(p.basic_info.genesis_date)
  IN  IF starost # 0 THEN starost
      ELSE IF rang <= 10 THEN Leta(8)
      ELSE IF rang <= 20 THEN Leta(6)
      ELSE IF rang <= 50 THEN Leta(4)
      ELSE IF rang <= 100 THEN Leta(3)
      ELSE Leta(2)

\* any(...) over a list of strings / any(flag for ...)
PyAny(flags) == \E i \in 1..Len(flags) : flags[i]

\* `bool(lst[0]) if lst else False`
PrviNeprazen(flags) == Len(flags) > 0 /\ flags[1]

--------------------------------------------------------------------------
(* AnalizatorMetrik.analiziraj_tehnicne                                    *)

analiziraj_tehnicne(p) ==
  LET osnovni == p.basic_info
      razvojni == osnovni.developer_data
      povezave == osnovni.links
      rang == _dobi_rang(p)
      starost_let == StarostTehnicne(p)
      zvezdice == razvojni.stars
      forki == razvojni.forks
      commiti == razvojni.commit_count_4_weeks
      je_token ==
        \E i \in 1..Len(osnovni.categories) :
           \/ Vsebuje(Lower(osnovni.categories[i]), S_token)
           \/ Vsebuje(Lower(osnovni.categories[i]), S_erc)
           \/ Vsebuje(Lower(osnovni.categories[i]), S_bep)
  IN
  [ dostopnost_kode |->
      IF povezave.github > 0 THEN 85
      ELSE IF PyAny(povezave.blockchain_site) THEN 60
      ELSE 40,
    kvaliteta_arhitekture |->
      IF zvezdice > 50000 /\ forki > 20000 THEN 95
      ELSE IF zvezdice > 30000 /\ forki > 10000 THEN 90
      ELSE IF zvezdice > 15000 /\ forki > 5000 THEN 85
      ELSE IF zvezdice > 5000 THEN 80
      ELSE IF zvezdice > 1000 THEN 75
      ELSE IF zvezdice > 500 \/ commiti > 50 THEN 70
      ELSE IF zvezdice > 100 \/ commiti > 20 THEN 60
      ELSE IF zvezdice > 0 \/ commiti > 0 THEN 50
      ELSE IF rang <= 10 /\ starost_let > Leta(5) THEN 90
      ELSE IF rang <= 20 /\ starost_let > Leta(4) THEN 85
      ELSE IF rang <= 30 /\ starost_let > Leta(3) THEN 80
      ELSE IF rang <= 50 /\ starost_let > Leta(2) THEN 75
      ELSE IF rang <= 100 /\ starost_let > Leta(1) THEN 70
      ELSE IF rang <= 200 THEN 65
      ELSE IF rang <= 500 THEN 55
      ELSE 40,
    decentralizacija |->
      IF starost_let > Leta(10) /\ rang <= 5 THEN 95
      ELSE IF starost_let > Leta(6) /\ rang <= 15 THEN 90
      ELSE IF starost_let > Leta(4) /\ rang <= 30 THEN 85
      ELSE IF starost_let > Leta(3) /\ rang <= 50 THEN 80
      ELSE IF starost_let > Leta(2) /\ rang <= 100 THEN 75
      ELSE IF starost_let > Leta(2) THEN 70
      ELSE IF starost_let > Leta(1) THEN 65
      ELSE IF rang <= 100 THEN 60
      ELSE 50,
    varnostni_mehanizmi |->
      IF rang <= 5 THEN 95
      ELSE IF rang <= 10 THEN 90
      ELSE IF rang <= 20 THEN 85
      ELSE IF rang <= 50 THEN 80
      ELSE IF rang <= 100 THEN 75
      ELSE IF rang <= 200 THEN 70
      ELSE IF rang <= 500 THEN 60
      ELSE IF rang <= 1000 THEN 50
      ELSE 40,
    status_revizije |->
      IF rang <= 10 /\ starost_let > Leta(5) THEN 95
      ELSE IF rang <= 20 /\ starost_let > Leta(3) THEN 90
      ELSE IF rang <= 50 /\ starost_let > Leta(2) THEN 80
      ELSE IF rang <= 100 /\ starost_let > Leta(1) THEN 75
      ELSE IF rang <= 200 THEN 70
      ELSE IF rang <= 500 THEN 60
      ELSE 50,
    tveganje_pogodbe |->
      IF ~je_token THEN 80
      ELSE IF rang <= 50 /\ starost_let > Leta(3) THEN 80
      ELSE IF rang <= 100 /\ starost_let > Leta(2) THEN 75
      ELSE IF rang <= 200 /\ starost_let > Leta(1) THEN 70
      ELSE 60 ]

--------------------------------------------------------------------------
(* AnalizatorMetrik.analiziraj_ekonomske                                   *)

Abs(x) == IF x < 0 THEN -x ELSE x
Max(a, b) == IF a >= b THEN a ELSE b
Min(a, b) == IF a <= b THEN a ELSE b

\* raised by the chained .get(...).get('usd') reads when the inner dict is None
analiziraj_ekonomske_raises(p) ==
  \/ _dobi_trzno_kap_raises(p)
  \/ _dobi_volumen_raises(p)
  \/ UsdRaises(TrzniInfo(p).ath_change_percentage)

\* `ath_sprememba` of analiziraj_ekonomske, in tenths of a percent
AthEkonomske(p) ==
  IF Usd(TrzniInfo(p).ath_change_percentage) # 0
  THEN Usd(TrzniInfo(p).ath_change_percentage)
  ELSE IF p.market_data.ath_change_percentage # 0
  THEN p.market_data.ath_change_percentage
  ELSE -500

\* razmerje_volumna = volumen / trzna_kap * 100 compared with a band edge.
\* With the volume V in 100 USD and the cap C in 10000 USD the percentage is
\* V / C, so `razmerje > n` is V > n * C, `> 0.5` is V > C / 2 and `> 0.1` is
\* V > C / 10 (V is an integer, so the floor of the right side decides).
\* pravicnost_distribucije with the floor added to the band instead of max()
pravicnost_distribucije_vsota(volumen, trzna_kap, rang, starost_let) ==
  LET osnova == IF trzna_kap <= 0 THEN 50
                ELSE IF volumen > trzna_kap THEN 75
                ELSE 50
  IN  IF rang <= 10 /\ starost_let > Leta(5) THEN osnova + 90
      ELSE IF rang <= 100 THEN osnova + 75
      ELSE osnova

pravicnost_distribucije(volumen, trzna_kap, rang, starost_let) ==
  LET V == volumen
      C == trzna_kap
      osnova ==
        IF C <= 0 THEN 50              \* razmerje_volumna = 0
        ELSE IF V > 15 * C THEN 95
        ELSE IF V > 8 * C THEN 90
        ELSE IF V > 4 * C THEN 85
        ELSE IF V > 2 * C THEN 80
        ELSE IF V > C THEN 75
        ELSE IF V > C \div 2 THEN 70
        ELSE IF V > C \div 10 THEN 60
        ELSE 50
  IN  IF rang <= 10 /\ starost_let > Leta(5) THEN Max(osnova, 90)
      ELSE IF rang <= 30 /\ starost_let > Leta(3) THEN Max(osnova, 85)
      ELSE IF rang <= 50 THEN Max(osnova, 80)
      ELSE IF rang <= 100 THEN Max(osnova, 75)
      ELSE osnova

mehanizem_inflacije(p) ==
  LET trzni == p.market_data
      trzni_info == TrzniInfo(p)
      max_zaloga == IF trzni_info.max_supply # 0 THEN trzni_info.max_supply
                    ELSE trzni.max_supply
      v_obtoku == IF trzni_info.circulating_supply # 0
                  THEN trzni_info.circulating_supply
                  ELSE trzni.circulating_supply
  IN  IF max_zaloga # 0 /\ v_obtoku # 0 /\ max_zaloga > 0
      THEN IF 10 * v_obtoku > 9 * max_zaloga THEN 90        \* ratio > 0.9
           ELSE IF 4 * v_obtoku > 3 * max_zaloga THEN 80    \* ratio > 0.75
           ELSE IF 2 * v_obtoku > max_zaloga THEN 70        \* ratio > 0.5
           ELSE IF 10 * v_obtoku > 3 * max_zaloga THEN 60   \* ratio > 0.3
           ELSE 50
      ELSE 65

vesting_urnik(starost_let) ==
  IF starost_let > Leta(10) THEN 95
  ELSE IF starost_let > Leta(7) THEN 90
  ELSE IF starost_let > Leta(5) THEN 85
  ELSE IF starost_let > Leta(3) THEN 80
  ELSE IF starost_let > Leta(2) THEN 75
  ELSE IF starost_let > Leta(1) THEN 70
  ELSE 60

koncentracija_lastnistva(ath_sprememba, rang, starost_let) ==
  LET osnova ==
        IF ath_sprememba > -200 THEN 90
        ELSE IF ath_sprememba > -400 THEN 85
        ELSE IF ath_sprememba > -600 THEN 80
        ELSE IF ath_sprememba > -750 THEN 75
        ELSE IF ath_sprememba > -850 THEN 70
        ELSE IF ath_sprememba > -920 THEN 60
        ELSE 50
  IN  IF rang <= 10 /\ starost_let > Leta(5) THEN Max(osnova, 85)
      ELSE IF rang <= 30 /\ starost_let > Leta(3) THEN Max(osnova, 80)
      ELSE IF rang <= 50 THEN Max(osnova, 75)
      ELSE IF rang <= 100 THEN Max(osnova, 70)
      ELSE osnova

\* globina_likvidnosti with the scores of two neighbouring bands exchanged
globina_likvidnosti_zamenjana(volumen) ==
  IF volumen > 20000000 THEN 95
  ELSE IF volumen > 10000000 THEN 90
  ELSE IF volumen > 5000000 THEN 85
  ELSE IF volumen > 2000000 THEN 80
  ELSE IF volumen > 1000000 THEN 75
  ELSE IF volumen > 500000 THEN 70
  ELSE IF volumen > 100000 THEN 60
  ELSE IF volumen > 10000 THEN 65
  ELSE IF volumen > 1000 THEN 50
  ELSE 40

\* volume bands, in units of 100 USD (2000000000 USD = 20000000)
globina_likvidnosti(volumen) ==
  IF volumen > 20000000 THEN 95
  ELSE IF volumen > 10000000 THEN 90
  ELSE IF volumen > 5000000 THEN 85
  ELSE IF volumen > 2000000 THEN 80
  ELSE IF volumen > 1000000 THEN 75
  ELSE IF volumen > 500000 THEN 70
  ELSE IF volumen > 100000 THEN 65
  ELSE IF volumen > 10000 THEN 60
  ELSE IF volumen > 1000 THEN 50
  ELSE 40

\* volatilnost = (|7d| + |30d|) / 2 against 5, 10, 20, 35, 50
indikatorji_manipulacije(p) ==
  LET trzni == p.market_data
      trzni_info == TrzniInfo(p)
      sprememba_7d ==
        IF trzni.price_change_percentage_7d_in_currency # 0
        THEN trzni.price_change_percentage_7d_in_currency
        ELSE trzni_info.price_change_percentage_7d
      sprememba_30d ==
        IF trzni.price_change_percentage_30d_in_currency # 0
        THEN trzni.price_change_percentage_30d_in_currency
        ELSE trzni_info.price_change_percentage_30d
      dvojna == Abs(sprememba_7d) + Abs(sprememba_30d)
  IN  IF dvojna < 10 THEN 90
      ELSE IF dvojna < 20 THEN 85
      ELSE IF dvojna < 40 THEN 80
      ELSE IF dvojna < 70 THEN 70
      ELSE IF dvojna < 100 THEN 60
      ELSE 50

vzdrznost_tokenomike(rang, starost_let) ==
  IF rang <= 10 /\ starost_let > Leta(5) THEN 95
  ELSE IF rang <= 30 /\ starost_let > Leta(3) THEN 90
  ELSE IF rang <= 50 /\ starost_let > Leta(2) THEN 85
  ELSE IF rang <= 100 THEN 80
  ELSE IF rang <= 200 THEN 75
  ELSE 70

analiziraj_ekonomske(p) ==
  LET rang == _dobi_rang(p)
      trzna_kap == _dobi_trzno_kap(p)
      volumen == _dobi_volumen(p)
      starost_let == StarostEkonomske(p)
  IN
  [ pravicnost_distribucije |->
      pravicnost_distribucije(volumen, trzna_kap, rang, starost_let),
    mehanizem_inflacije |-> mehanizem_inflacije(p),
    vesting_urnik |-> vesting_urnik(starost_let),
    koncentracija_lastnistva |->
      koncentracija_lastnistva(AthEkonomske(p), rang, starost_let),
    globina_likvidnosti |-> globina_likvidnosti(volumen),
    indikatorji_manipulacije |-> indikatorji_manipulacije(p),
    vzdrznost_tokenomike |-> vzdrznost_tokenomike(rang, starost_let) ]

--------------------------------------------------------------------------
(* AnalizatorMetrik.analiziraj_socialne                                    *)

\* osnovni.get('description', {}).get('en', ''): AttributeError when
\* description is None; len(None) is a TypeError when 'en' is None
analiziraj_socialne_raises(p) ==
  \/ p.basic_info.description.t = "null"
  \/ /\ p.basic_info.description.t = "val"
     /\ p.basic_info.description.v.t = "null"

\* len(osnovni.get('description', {}).get('en', ''))
DolzinaOpisa(p) ==
  LET d == p.basic_info.description
  IN  IF d.t = "val" /\ d.v.t = "val" THEN Len(d.v.v.text) + d.v.v.pad ELSE 0

Bit(b) == IF b THEN 1 ELSE 0

analiziraj_socialne(p) ==
  LET osnovni == p.basic_info
      skupnost == osnovni.community_data
      povezave == osnovni.links
      sentiment == IF osnovni.sentiment_votes_up_percentage # 0
                   THEN osnovni.sentiment_votes_up_percentage ELSE 50
      rang == _dobi_rang(p)
      starost_let == StarostSocialne(p)
      twitter == skupnost.twitter_followers
      reddit == skupnost.reddit_subscribers
      telegram == skupnost.telegram_channel_user_count
      skupaj_skupnost == twitter + reddit + telegram
      ima_domaco == PrviNeprazen(povezave.homepage)
      ima_whitepaper == povezave.whitepaper
      ima_chat == PrviNeprazen(povezave.chat_url)
      ima_forum == PrviNeprazen(povezave.official_forum_url)
      stevilo_kanalov ==
        Bit(ima_domaco) + Bit(ima_whitepaper) + Bit(ima_chat) + Bit(ima_forum)
      osnova_transparentnosti ==
        IF stevilo_kanalov >= 4 THEN 90
        ELSE IF stevilo_kanalov >= 3 THEN 85
        ELSE IF stevilo_kanalov >= 2 THEN 75
        ELSE IF stevilo_kanalov >= 1 THEN 60
        ELSE 40
      dolzina_opisa == DolzinaOpisa(p)
      ima_opis == dolzina_opisa > 0
      reddit_aktivnost == skupnost.reddit_accounts_active_48h
  IN
  [ transparentnost_ekipe |->
      IF rang <= 30 /\ starost_let > Leta(3)
      THEN Max(osnova_transparentnosti, 85)
      ELSE osnova_transparentnosti,
    izkusenost_ekipe |->
      IF rang <= 10 /\ starost_let > Leta(5) THEN 95
      ELSE IF rang <= 20 /\ starost_let > Leta(4) THEN 90
      ELSE IF rang <= 30 /\ starost_let > Leta(3) THEN 85
      ELSE IF rang <= 50 /\ starost_let > Leta(2) THEN 80
      ELSE IF rang <= 100 THEN 75
      ELSE IF rang <= 200 THEN 70
      ELSE 60,
    kvaliteta_dokumentacije |->
      IF ima_whitepaper /\ dolzina_opisa > 1000 THEN 90
      ELSE IF ima_whitepaper /\ dolzina_opisa > 500 THEN 85
      ELSE IF dolzina_opisa > 1000 THEN 80
      ELSE IF dolzina_opisa > 500 THEN 75
      ELSE IF dolzina_opisa > 200 THEN 70
      ELSE IF ima_opis THEN 60
      ELSE 50,
    angaziranost_skupnosti |->
      IF skupaj_skupnost > 5000000 THEN 95
      ELSE IF skupaj_skupnost > 2000000 THEN 90
      ELSE IF skupaj_skupnost > 1000000 THEN 85
      ELSE IF skupaj_skupnost > 500000 THEN 80
      ELSE IF skupaj_skupnost > 100000 THEN 75
      ELSE IF skupaj_skupnost > 50000 THEN 70
      ELSE IF skupaj_skupnost > 10000 THEN 60
      ELSE IF rang <= 10 THEN 90
      ELSE IF rang <= 30 THEN 85
      ELSE IF rang <= 50 THEN 80
      ELSE IF rang <= 100 THEN 75
      ELSE 65,
    pristop_marketinga |->
      IF sentiment > 80 THEN 90
      ELSE IF sentiment > 65 THEN 80
      ELSE IF sentiment > 50 THEN 70
      ELSE IF sentiment > 40 THEN 60
      ELSE 50,
    prisotnost_na_omrezjih |->
      IF twitter > 1000000 /\ reddit > 100000 THEN 95
      ELSE IF twitter > 500000 \/ reddit > 100000 THEN 90
      ELSE IF twitter > 200000 \/ reddit > 50000 THEN 85
      ELSE IF twitter > 100000 \/ reddit > 20000 THEN 80
      ELSE IF twitter > 50000 \/ reddit > 10000 THEN 75
      ELSE IF twitter > 10000 \/ reddit > 5000 THEN 70
      ELSE IF rang <= 30 THEN 80
      ELSE IF rang <= 100 THEN 75
      ELSE 65,
    zdravje_skupnosti |->
      IF reddit_aktivnost > 10000 THEN 90
      ELSE IF reddit_aktivnost > 5000 THEN 85
      ELSE IF reddit_aktivnost > 2000 THEN 80
      ELSE IF reddit_aktivnost > 1000 THEN 75
      ELSE IF reddit_aktivnost > 500 THEN 70
      ELSE IF reddit_aktivnost > 100 THEN 65
      ELSE IF rang <= 20 THEN 85
      ELSE IF rang <= 50 THEN 80
      ELSE IF rang <= 100 THEN 75
      ELSE 70 ]

--------------------------------------------------------------------------
(* models.py: TipPrevare, and AnalizatorMetrik.analiziraj_prevare          *)

\* the members of TipPrevare with their values
TipPrevare ==
  << [clan |-> "PONZIJEVA_SHEMA", vrednost |-> <<"P","o","n","z","i"," ","S","c","h","e","m","e">>],
     [clan |-> "RUG_PULL", vrednost |-> <<"R","u","g"," ","P","u","l","l">>],
     [clan |-> "PUMP_AND_DUMP", vrednost |-> <<"P","u","m","p"," ","a","n","d"," ","D","u","m","p">>],
     [clan |-> "ALGORITMICNA_NAPAKA", vrednost |-> <<"A","l","g","o","r","i","t","h","m","i","c"," ","F","a","i","l","u","r","e">>],
     [clan |-> "SUMLJIVA_PONZI", vrednost |-> <<"S","u","s","p","e","c","t","e","d"," ","P","o","n","z","i">>],
     [clan |-> "TVEGANJE_BORZE", vrednost |-> <<"E","x","c","h","a","n","g","e"," ","T","o","k","e","n"," ","R","i","s","k">>],
     [clan |-> "HONEYPOT", vrednost |-> <<"H","o","n","e","y","p","o","t">>],
     [clan |-> "NEZNANO", vrednost |-> <<"U","n","k","n","o","w","n","/","N","o","t"," ","C","l","a","s","s","i","f","i","e","d">>] >>

S_unknown == <<"u","n","k","n","o","w","n">>

\* TipPrevare(tip_str): lookup of a member by value; ValueError when no
\* member has that value, which the caller turns into NEZNANO
TipPoVrednosti(tip_str) ==
  IF \E i \in 1..Len(TipPrevare) : TipPrevare[i].vrednost = tip_str
  THEN TipPrevare[CHOOSE i \in 1..Len(TipPrevare) :
                    TipPrevare[i].vrednost = tip_str].clan
  ELSE "NEZNANO"

\* IndikatorjiPrevare()
NoviIndikatorji ==
  [ je_znana_prevara |-> FALSE, tip_prevare |-> "NEZNANO",
    verjetnost_prevare |-> 0, rdeci_zastavice |-> <<>>, opozorila |-> <<>>,
    podatki_znane_prevare |-> NiZapisa ]

\* `besedilo` of analiziraj_prevare
BesediloRaises(p) ==
  /\ p.basic_info.description.t = "val"
  /\ p.basic_info.description.v.t = "null"

Besedilo(p) ==
  LET d == p.basic_info.description
  IN  IF d.t = "null" THEN S_none              \* str(None).lower()
      ELSE IF d.t = "val" /\ d.v.t = "val" THEN Lower(d.v.v.text)
      ELSE <<>>

\* `ath_sprememba` of analiziraj_prevare (basic_info only), tenths of a percent
AthPrevare(p) ==
  IF Usd(TrzniInfo(p).ath_change_percentage) # 0
  THEN Usd(TrzniInfo(p).ath_change_percentage)
  ELSE -500

\* exceptions of the dynamic part of analiziraj_prevare
dinamicna_analiza_raises(p) ==
  \/ _dobi_trzno_kap_raises(p)
  \/ _dobi_volumen_raises(p)
  \/ BesediloRaises(p)
  \/ p.basic_info.name.t = "null"
  \/ UsdRaises(TrzniInfo(p).ath_change_percentage)

\* tocke_prevare without the points for hype words in the name
tocke_prevare_brez_imen(p) ==
  LET rang == _dobi_rang(p)
      trzna_kap == _dobi_trzno_kap(p)
      volumen == _dobi_volumen(p)
      ath_sprememba == AthPrevare(p)
  IN    10 * Cardinality({ i \in 1..Len(rdece_fraze) :
                            Vsebuje(Besedilo(p), rdece_fraze[i]) })
      + (IF rang > 200
         THEN IF trzna_kap < 100 /\ trzna_kap > 0 THEN 15
              ELSE IF trzna_kap < 1000 /\ trzna_kap > 0 THEN 8
              ELSE 0
         ELSE 0)
      + (IF rang > 100
         THEN IF ath_sprememba < -990 THEN 25
              ELSE IF ath_sprememba < -950 THEN 15
              ELSE 0
         ELSE 0)
      + (IF rang > 100
         THEN IF volumen < 10 /\ trzna_kap > 0 THEN 20
              ELSE IF volumen < 100 /\ trzna_kap > 0 THEN 10
              ELSE 0
         ELSE 0)

\* tocke_prevare; the volume is in 100 USD (1000 USD = 10) and the market
\* cap in 10000 USD (1000000 USD = 100)
tocke_prevare(p) ==
  LET rang == _dobi_rang(p)
      trzna_kap == _dobi_trzno_kap(p)
      volumen == _dobi_volumen(p)
      besedilo == Besedilo(p)
      ime == Lower(GetOr(p.basic_info.name, <<>>))
      ath_sprememba == AthPrevare(p)
  IN    5 * Cardinality({ i \in 1..Len(sumljiva_imena) :
                            Vsebuje(ime, sumljiva_imena[i]) })
      + 10 * Cardinality({ i \in 1..Len(rdece_fraze) :
                            Vsebuje(besedilo, rdece_fraze[i]) })
      + (IF rang > 200
         THEN IF trzna_kap < 100 /\ trzna_kap > 0 THEN 15
              ELSE IF trzna_kap < 1000 /\ trzna_kap > 0 THEN 8
              ELSE 0
         ELSE 0)
      + (IF rang > 100
         THEN IF ath_sprememba < -990 THEN 25
              ELSE IF ath_sprememba < -950 THEN 15
              ELSE 0
         ELSE 0)
      + (IF rang > 100
         THEN IF volumen < 10 /\ trzna_kap > 0 THEN 20
              ELSE IF volumen < 100 /\ trzna_kap > 0 THEN 10
              ELSE 0
         ELSE 0)

\* min(tocke_prevare / 100, 0.95), in points
verjetnost_prevare(p) == Min(tocke_prevare(p), 95)

\* tip_prevare with the description test ahead of the market test
tip_prevare_najprej_opis(p) ==
  IF verjetnost_prevare(p) > 60
  THEN IF \/ Vsebuje(Besedilo(p), S_passive_income)
          \/ Vsebuje(Besedilo(p), S_guaranteed)
       THEN "SUMLJIVA_PONZI"
       ELSE IF AthPrevare(p) < -990 /\ _dobi_volumen(p) < 100 THEN "RUG_PULL"
       ELSE "PUMP_AND_DUMP"
  ELSE "NEZNANO"

\* tip_prevare with the type assigned from probability 0.6 on
tip_prevare_od_06(p) ==
  IF verjetnost_prevare(p) >= 60
  THEN IF AthPrevare(p) < -990 /\ _dobi_volumen(p) < 100 THEN "RUG_PULL"
       ELSE IF \/ Vsebuje(Besedilo(p), S_passive_income)
               \/ Vsebuje(Besedilo(p), S_guaranteed)
       THEN "SUMLJIVA_PONZI"
       ELSE "PUMP_AND_DUMP"
  ELSE "NEZNANO"

tip_prevare(p) ==
  IF verjetnost_prevare(p) > 60
  THEN IF AthPrevare(p) < -990 /\ _dobi_volumen(p) < 100 THEN "RUG_PULL"
       ELSE IF \/ Vsebuje(Besedilo(p), S_passive_income)
               \/ Vsebuje(Besedilo(p), S_guaranteed)
       THEN "SUMLJIVA_PONZI"
       ELSE "PUMP_AND_DUMP"
  ELSE "NEZNANO"

Zastavice(k, n) == [i \in 1..n |-> [k |-> k, n |-> i]]

\* the dynamic part of analiziraj_prevare (no registry match)
dinamicna_analiza(p) ==
  LET rang == _dobi_rang(p)
      ime == Lower(GetOr(p.basic_info.name, <<>>))
  IN
  [ je_znana_prevara |-> FALSE,
    tip_prevare |-> tip_prevare(p),
    verjetnost_prevare |-> verjetnost_prevare(p),
    rdeci_zastavice |->
      SelectSeq(Zastavice("fraza", Len(rdece_fraze)),
                LAMBDA f : Vsebuje(Besedilo(p), rdece_fraze[f.n]))
      \o (IF rang > 100 /\ AthPrevare(p) < -990
          THEN <<[k |-> "ath_99", n |-> 0]>> ELSE <<>>)
      \o (IF rang > 100 /\ _dobi_volumen(p) < 10 /\ _dobi_trzno_kap(p) > 0
          THEN <<[k |-> "nizek_volumen", n |-> 0]>> ELSE <<>>),
    opozorila |->
      SelectSeq(Zastavice("hype", Len(sumljiva_imena)),
                LAMBDA f : Vsebuje(ime, sumljiva_imena[f.n])),
    podatki_znane_prevare |-> NiZapisa ]

\* red_flags copied from a registry record
ZastaviceZapisa(zapis) == GetOr(zapis.red_flags, <<>>)

\* the branch of analiziraj_prevare taken on a match by coin name
prevara_po_imenu(zapis) ==
  [ je_znana_prevara |-> TRUE,
    tip_prevare |->
      TipPoVrednosti(Replace(Upper(GetOr(zapis.scam_type, S_unknown)), "_", " ")),
    verjetnost_prevare |-> 100,
    rdeci_zastavice |-> ZastaviceZapisa(zapis),
    opozorila |-> <<>>,
    podatki_znane_prevare |-> zapis ]

\* prevara_po_id with the probability left at its initial value
prevara_po_id_brez_verjetnosti(zapis) ==
  [ je_znana_prevara |-> TRUE,
    tip_prevare |-> "NEZNANO",
    verjetnost_prevare |-> 0,
    rdeci_zastavice |-> ZastaviceZapisa(zapis),
    opozorila |-> <<>>,
    podatki_znane_prevare |-> zapis ]

\* the branch of analiziraj_prevare taken on a match by coin_id
prevara_po_id(zapis) ==
  [ je_znana_prevara |-> TRUE,
    tip_prevare |-> "NEZNANO",
    verjetnost_prevare |-> 100,
    rdeci_zastavice |-> ZastaviceZapisa(zapis),
    opozorila |-> <<>>,
    podatki_znane_prevare |-> zapis ]

\* AnalizatorMetrik.analiziraj_prevare(podatki, ime_kovanca), for a name that
\* is a str
analiziraj_prevare(b, p, ime_kovanca) ==
  IF je_znana_prevara(b, ime_kovanca).najden
  THEN prevara_po_imenu(je_znana_prevara(b, ime_kovanca).zapis)
  ELSE IF je_znana_prevara(b, p.coin_id).najden
  THEN prevara_po_id(je_znana_prevara(b, p.coin_id).zapis)
  ELSE dinamicna_analiza(p)

analiziraj_prevare_raises(b, p, ime_kovanca) ==
  /\ ~je_znana_prevara(b, ime_kovanca).najden
  /\ ~je_znana_prevara(b, p.coin_id).najden
  /\ dinamicna_analiza_raises(p)

--------------------------------------------------------------------------
(* models.py: izracunaj_oceno of the three metric classes.                 *)
(* Sub-scores are in tenths and weights in hundredths, so the sum is the   *)
(* axis score (0..100) times 100.                                          *)

\* TehnicneMetrike.izracunaj_oceno with the weight of 'koda' raised to 0.16
TehnicneMetrike_izracunaj_oceno_utez16(m) ==
    m.dostopnost_kode * 16
  + m.kvaliteta_arhitekture * 18
  + m.decentralizacija * 22
  + m.varnostni_mehanizmi * 22
  + m.status_revizije * 13
  + m.tveganje_pogodbe * 10

TehnicneMetrike_izracunaj_oceno(m) ==
    m.dostopnost_kode * 15
  + m.kvaliteta_arhitekture * 18
  + m.decentralizacija * 22
  + m.varnostni_mehanizmi * 22
  + m.status_revizije * 13
  + m.tveganje_pogodbe * 10

EkonomskeMetrike_izracunaj_oceno(m) ==
    m.pravicnost_distribucije * 18
  + m.mehanizem_inflacije * 12
  + m.vesting_urnik * 15
  + m.koncentracija_lastnistva * 20
  + m.globina_likvidnosti * 15
  + m.indikatorji_manipulacije * 12
  + m.vzdrznost_tokenomike * 8

SocialneMetrike_izracunaj_oceno(m) ==
    m.transparentnost_ekipe * 22
  + m.izkusenost_ekipe * 18
  + m.kvaliteta_dokumentacije * 18
  + m.angaziranost_skupnosti * 15
  + m.pristop_marketinga * 10
  + m.prisotnost_na_omrezjih * 8
  + m.zdravje_skupnosti * 9

--------------------------------------------------------------------------
(* klasifikator.py: KriptoKlasifikator                                     *)

\* axis weights, in hundredths
UTEZ_TEHNICNE == 40
UTEZ_EKONOMSKE == 35
UTEZ_SOCIALNE == 25

\* a score n (0..100) in the unit of `koncna`: 1 / 2000000
Ocena(n) == n * 2000000

\* klasificiraj: the weighted sum and the fraud penalty.  The axis scores are
\* in hundredths and the weights in hundredths, so the weighted sum is
\* score * 10^4; the penalty factor 1 - p * 0.5 is (200 - points) / 200.
\* KoncnaOcena without the fraud penalty
KoncnaOcena_brez_kazni(ocena_teh, ocena_eko, ocena_soc, verjetnost) ==
  ( ocena_teh * UTEZ_TEHNICNE + ocena_eko * UTEZ_EKONOMSKE
    + ocena_soc * UTEZ_SOCIALNE ) * 200

\* KoncnaOcena with the penalty factor 1 - verjetnost
KoncnaOcena_polna_kazen(ocena_teh, ocena_eko, ocena_soc, verjetnost) ==
  LET utezena == ocena_teh * UTEZ_TEHNICNE
               + ocena_eko * UTEZ_EKONOMSKE
               + ocena_soc * UTEZ_SOCIALNE
  IN  IF verjetnost > 0 THEN utezena * (200 - 2 * verjetnost) ELSE utezena * 200

KoncnaOcena(ocena_teh, ocena_eko, ocena_soc, verjetnost) ==
  LET utezena == ocena_teh * UTEZ_TEHNICNE
               + ocena_eko * UTEZ_EKONOMSKE
               + ocena_soc * UTEZ_SOCIALNE
  IN  IF verjetnost > 0 THEN utezena * (200 - verjetnost) ELSE utezena * 200

\* round(koncna, 2), in hundredths.  An exact tie is decided by the binary
\* value of the float, so both neighbours are possible outcomes.
Zaokrozi2(k) ==
  LET q == k \div 20000
      r == k % 20000
  IN  IF r < 10000 THEN {q}
      ELSE IF r > 10000 THEN {q + 1}
      ELSE {q, q + 1}

\* models.py: StopnjaTveganja values
ZELO_NIZKO == "Very Low Risk"
NIZKO == "Low Risk"
SREDNJE == "Moderate Risk"
VISOKO == "High Risk"
ZELO_VISOKO == "Very High Risk"
KRITICNO == "Critical Risk - Likely Scam"
StopnjaTveganja == {ZELO_NIZKO, NIZKO, SREDNJE, VISOKO, ZELO_VISOKO, KRITICNO}

\* models.py: KategorijaProjekta values
LAYER_1 == "Layer 1 - Own Blockchain"
KVALITETEN_TOKEN == "Quality Token - No Own Chain"
PROBLEMATICEN == "Problematic/Scam Project"
NEKATEGORIZIRAN == "Uncategorized"
KategorijaProjekta == {LAYER_1, KVALITETEN_TOKEN, PROBLEMATICEN, NEKATEGORIZIRAN}

\* _doloci_stopnjo with the score bands tested before the fraud probability
_doloci_stopnjo_po_pasovih(ocena, ind) ==
  IF ind.je_znana_prevara THEN KRITICNO
  ELSE IF ocena >= Ocena(85) THEN ZELO_NIZKO
  ELSE IF ocena >= Ocena(70) THEN NIZKO
  ELSE IF ocena >= Ocena(55) THEN SREDNJE
  ELSE IF ocena >= Ocena(40) THEN VISOKO
  ELSE IF ocena >= Ocena(25) THEN ZELO_VISOKO
  ELSE KRITICNO

_doloci_stopnjo(ocena, ind) ==
  IF ind.je_znana_prevara \/ ind.verjetnost_prevare > 80 THEN KRITICNO
  ELSE IF ocena >= Ocena(85) THEN ZELO_NIZKO
  ELSE IF ocena >= Ocena(70) THEN NIZKO
  ELSE IF ocena >= Ocena(55) THEN SREDNJE
  ELSE IF ocena >= Ocena(40) THEN VISOKO
  ELSE IF ocena >= Ocena(25) THEN ZELO_VISOKO
  ELSE KRITICNO

\* _doloci_kategorijo with the score bands tested before the labels
_doloci_kategorijo_najprej_ocena(p, ocena) ==
  LET kategorije == p.basic_info.categories
      rang == IF p.market_data.market_cap_rank # 0
              THEN p.market_data.market_cap_rank
              ELSE IF TrzniInfo(p).market_cap_rank # 0
              THEN TrzniInfo(p).market_cap_rank
              ELSE 10000
      je_layer1 ==
        \E i \in 1..Len(kategorije) :
           \/ Vsebuje(Lower(kategorije[i]), S_layer_1)
           \/ Vsebuje(Lower(kategorije[i]), S_layer_0)
           \/ Vsebuje(Lower(kategorije[i]), S_layer1)
           \/ Vsebuje(Lower(kategorije[i]), S_layer0)
           \/ Vsebuje(Lower(kategorije[i]), S_smart_contract_platform)
           \/ Vsebuje(Lower(kategorije[i]), S_proof_of_stake)
           \/ Vsebuje(Lower(kategorije[i]), S_proof_of_work)
      ima_omrezje ==
        \E i \in 1..Len(kategorije) :
           \/ Vsebuje(Lower(kategorije[i]), S_blockchain)
           \/ Vsebuje(Lower(kategorije[i]), S_protocol)
           \/ Vsebuje(Lower(kategorije[i]), S_infrastructure)
           \/ Vsebuje(Lower(kategorije[i]), S_ecosystem)
  IN  IF ocena < Ocena(50) THEN PROBLEMATICEN
      ELSE IF je_layer1 THEN LAYER_1
      ELSE IF ima_omrezje /\ rang <= 100 /\ ocena >= Ocena(55) THEN LAYER_1
      ELSE KVALITETEN_TOKEN

_doloci_kategorijo(p, ocena) ==
  LET kategorije == p.basic_info.categories
      trzni == p.market_data
      trzni_info == TrzniInfo(p)
      rang == IF trzni.market_cap_rank # 0 THEN trzni.market_cap_rank
              ELSE IF trzni_info.market_cap_rank # 0
              THEN trzni_info.market_cap_rank
              ELSE 10000
      je_layer1 ==
        \E i \in 1..Len(kategorije) :
           \/ Vsebuje(Lower(kategorije[i]), S_layer_1)
           \/ Vsebuje(Lower(kategorije[i]), S_layer_0)
           \/ Vsebuje(Lower(kategorije[i]), S_layer1)
           \/ Vsebuje(Lower(kategorije[i]), S_layer0)
           \/ Vsebuje(Lower(kategorije[i]), S_smart_contract_platform)
           \/ Vsebuje(Lower(kategorije[i]), S_proof_of_stake)
           \/ Vsebuje(Lower(kategorije[i]), S_proof_of_work)
      ima_omrezje ==
        \E i \in 1..Len(kategorije) :
           \/ Vsebuje(Lower(kategorije[i]), S_blockchain)
           \/ Vsebuje(Lower(kategorije[i]), S_protocol)
           \/ Vsebuje(Lower(kategorije[i]), S_infrastructure)
           \/ Vsebuje(Lower(kategorije[i]), S_ecosystem)
  IN  IF je_layer1 THEN LAYER_1
      ELSE IF ima_omrezje /\ rang <= 100 /\ ocena >= Ocena(55) THEN LAYER_1
      ELSE IF ocena >= Ocena(50) THEN KVALITETEN_TOKEN
      ELSE PROBLEMATICEN

_doloci_crko(ocena) ==
  IF ocena >= Ocena(93) THEN "A+"
  ELSE IF ocena >= Ocena(85) THEN "A"
  ELSE IF ocena >= Ocena(80) THEN "A-"
  ELSE IF ocena >= Ocena(75) THEN "B+"
  ELSE IF ocena >= Ocena(70) THEN "B"
  ELSE IF ocena >= Ocena(65) THEN "B-"
  ELSE IF ocena >= Ocena(60) THEN "C+"
  ELSE IF ocena >= Ocena(55) THEN "C"
  ELSE IF ocena >= Ocena(50) THEN "C-"
  ELSE IF ocena >= Ocena(45) THEN "D+"
  ELSE IF ocena >= Ocena(40) THEN "D"
  ELSE IF ocena >= Ocena(35) THEN "D-"
  ELSE "F"

\* Presoja with a weakness for a score equal to the threshold as well
Presoja_vkljucno(vrednost, prag_prednosti, prag_slabosti, prednost, slabost) ==
  IF vrednost >= prag_prednosti THEN [p |-> <<prednost>>, s |-> <<>>]
  ELSE IF vrednost <= prag_slabosti THEN [p |-> <<>>, s |-> <<slabost>>]
  ELSE [p |-> <<>>, s |-> <<>>]

\* one if/elif pair of _analiziraj_prednosti_slabosti: [prednosti, slabosti]
Presoja(vrednost, prag_prednosti, prag_slabosti, prednost, slabost) ==
  IF vrednost >= prag_prednosti THEN [p |-> <<prednost>>, s |-> <<>>]
  ELSE IF vrednost < prag_slabosti THEN [p |-> <<>>, s |-> <<slabost>>]
  ELSE [p |-> <<>>, s |-> <<>>]

Prvih(n, seq) == SubSeq(seq, 1, Min(n, Len(seq)))

RECURSIVE Zlepi(_, _)
\* concatenation of field f over a sequence of records
Zlepi(pari, f) ==
  IF pari = <<>> THEN <<>> ELSE pari[1][f] \o Zlepi(Tail(pari), f)

_analiziraj_prednosti_slabosti(teh, eko, soc, ind) ==
  LET pari ==
        << Presoja(teh.dostopnost_kode, 80, 50,
                   "Odprta koda", "Omejena dostopnost kode"),
           Presoja(teh.kvaliteta_arhitekture, 80, 50,
                   "Mocna razvojna aktivnost", "Pomanjkljiva razvojna aktivnost"),
           Presoja(teh.decentralizacija, 80, 50,
                   "Visoka stopnja decentralizacije", "Vprasljiva decentralizacija"),
           Presoja(teh.varnostni_mehanizmi, 85, 50,
                   "Odlicni varnostni mehanizmi", "Pomanjkljivi varnostni mehanizmi"),
           Presoja(eko.globina_likvidnosti, 85, 50,
                   "Odlicna likvidnost", "Nizka likvidnost"),
           Presoja(eko.vzdrznost_tokenomike, 80, 50,
                   "Vzdrzna tokenomika", "Vprasljiva tokenomika"),
           Presoja(eko.koncentracija_lastnistva, 80, 50,
                   "Dobra distribucija lastnistva", "Visoka koncentracija lastnistva"),
           Presoja(eko.indikatorji_manipulacije, 80, 40,
                   "Nizka volatilnost", "Visoka volatilnost - mozna manipulacija"),
           Presoja(soc.angaziranost_skupnosti, 80, 50,
                   "Velika in aktivna skupnost", "Majhna skupnost"),
           Presoja(soc.transparentnost_ekipe, 80, 50,
                   "Transparentna ekipa", "Netransparentna ekipa"),
           Presoja(soc.kvaliteta_dokumentacije, 80, 50,
                   "Obsezna dokumentacija", "Pomanjkljiva dokumentacija"),
           IF ind.verjetnost_prevare > 50
           THEN [p |-> <<>>, s |-> <<"Visoka verjetnost prevare">>]
           ELSE IF ind.verjetnost_prevare > 30
           THEN [p |-> <<>>, s |-> <<"Nekateri indikatorji prevare">>]
           ELSE IF ind.verjetnost_prevare < 10
           THEN [p |-> <<"Nizka verjetnost prevare">>, s |-> <<>>]
           ELSE [p |-> <<>>, s |-> <<>>] >>
  IN  [ prednosti |-> Prvih(7, Zlepi(pari, "p")),
        slabosti |-> Prvih(7, Zlepi(pari, "s")) ]

Unknown == <<"U","n","k","n","o","w","n">>

\* KriptoKlasifikator._ustvari_porocilo_prevare; score in hundredths.  The
\* fields copied verbatim from the record that nothing else reads
\* (opis_prevare, datum_propada, ocenjene_izgube) and cas_analize are left out.
_ustvari_porocilo_prevare(ime, ind) ==
  LET podatki_prevare == ind.podatki_znane_prevare
  IN  [ vrsta |-> "prevara",
        ime |-> ime,
        koncna_ocena |-> GetOr(podatki_prevare.score, 0),
        ocena_crka |-> GetOr(podatki_prevare.grade, "F"),
        stopnja_tveganja |-> "CRITICAL",
        kategorija |-> "KNOWN_SCAM",
        je_potrjena_prevara |-> TRUE,
        tip_prevare |-> GetOr(podatki_prevare.scam_type, Unknown),
        rdeci_zastavice |-> GetOr(podatki_prevare.red_flags, <<>>) ]

\* the dict klasificiraj returns on the scored path (lines 123-142)
Porocilo(ime, k, zaokrozena, p, teh, eko, soc, ind) ==
  [ vrsta |-> "porocilo",
    ime |-> ime,
    koncna_ocena |-> zaokrozena,
    ocena_crka |-> _doloci_crko(k),
    stopnja_tveganja |-> _doloci_stopnjo(k, ind),
    kategorija |-> _doloci_kategorijo(p, k),
    tehnicna_ocena |-> TehnicneMetrike_izracunaj_oceno(teh),
    ekonomska_ocena |-> EkonomskeMetrike_izracunaj_oceno(eko),
    socialna_ocena |-> SocialneMetrike_izracunaj_oceno(soc),
    tehnicne_metrike |-> teh,
    ekonomske_metrike |-> eko,
    socialne_metrike |-> soc,
    verjetnost_prevare |-> ind.verjetnost_prevare,
    opozorila |-> ind.opozorila,
    rdeci_zastavice |-> ind.rdeci_zastavice,
    prednosti |-> _analiziraj_prednosti_slabosti(teh, eko, soc, ind).prednosti,
    slabosti |-> _analiziraj_prednosti_slabosti(teh, eko, soc, ind).slabosti ]

\* an exception leaving klasificiraj
Izjema(tip, sporocilo) == [ vrsta |-> "izjema", tip |-> tip, sporocilo |-> sporocilo ]

--------------------------------------------------------------------------
(* Inputs: identifiers, registry records and provider payloads             *)

ID_bitcoin ==
  <<"b","i","t","c","o","i","n">>

ID_squid_game ==
  <<"s","q","u","i","d","-","g","a","m","e">>

ID_Squid_Game ==
  <<"S","q","u","i","d"," ","G","a","m","e">>

ID_SQUID ==
  <<"S","Q","U","I","D">>

ID_safemoon ==
  <<"s","a","f","e","m","o","o","n">>

IME_Bitcoin ==
  <<"B","i","t","c","o","i","n">>

IME_SafeMoon_Inu ==
  <<"S","a","f","e","M","o","o","n"," ","I","n","u">>

IME_hype ==
  <<"S","a","f","e","M","o","o","n"," ","E","l","o","n"," ","D","o","g","e",
    " ","S","h","i","b","a"," ","I","n","u"," ","B","a","b","y"," ","M","i",
    "n","i"," ","G","e","m">>

TIP_rug_pull ==
  <<"r","u","g","_","p","u","l","l">>

KAT_layer1 ==
  <<"L","a","y","e","r"," ","1"," ","(","L","1",")">>

KAT_token ==
  <<"E","R","C","-","2","0"," ","T","o","k","e","n">>

KAT_infra ==
  <<"I","n","f","r","a","s","t","r","u","c","t","u","r","e">>

OPIS_nevtralen ==
  <<"A"," ","p","e","e","r","-","t","o","-","p","e","e","r"," ","e","l","e",
    "c","t","r","o","n","i","c"," ","c","a","s","h"," ","s","y","s","t","e",
    "m">>

OPIS_ponzi ==
  <<"G","u","a","r","a","n","t","e","e","d"," ","r","e","t","u","r","n"," ",
    "a","n","d"," ","p","a","s","s","i","v","e"," ","i","n","c","o","m",
    "e">>

OPIS_hype ==
  <<"G","u","a","r","a","n","t","e","e","d"," ","r","e","t","u","r","n",",",
    " ","r","i","s","k"," ","f","r","e","e"," ","1","0","0","0","x","!"," ",
    "T","h","e"," ","n","e","x","t"," ","b","i","t","c","o","i","n",":"," ",
    "g","e","t"," ","r","i","c","h",","," ","p","a","s","s","i","v","e"," ",
    "i","n","c","o","m","e",","," ","d","o","n","t"," ","m","i","s","s",",",
    " ","d","o","n","'","t"," ","m","i","s","s",","," ","l","i","m","i","t",
    "e","d"," ","t","i","m","e">>


\* registry records
Z_squid ==
  [ name |-> Val(ID_Squid_Game), symbol |-> Val(ID_SQUID),
    scam_type |-> Val(TIP_rug_pull), score |-> Val(500), grade |-> Val("F"),
    red_flags |-> Val(<<[k |-> "zapis", n |-> 1], [k |-> "zapis", n |-> 2]>>) ]

\* a record that holds nothing but a score outside 0..100
Z_visok == [ NiZapisa EXCEPT !.score = Val(15000) ]

Z_negativen == [ Z_squid EXCEPT !.score = Val(-100) ]

Zapisi == { Z_squid, NiZapisa, Z_visok, Z_negativen }

\* identifiers passed to dodaj_prevaro and to klasificiraj
KljuciDodajanja == { ID_squid_game, ID_safemoon }
Identifikatorji == { ID_bitcoin, ID_Squid_Game, ID_SQUID, ID_safemoon }

\* payload with nothing but a rank in the markets entry
Osnova(rang) ==
  [ coin_id |-> <<>>,
    basic_info |-> PrazenOsnovni,
    market_data |-> [PraznoTrzni EXCEPT !.market_cap_rank = rang] ]

Opis(text, pad) == Val(Val([text |-> text, pad |-> pad]))

TrzniInfoZ(rang) == Val([PraznoTrzniInfo EXCEPT !.market_cap_rank = rang])

\* payloads without a resolvable rank
BrezRanga ==
  { Osnova(0),
    [Osnova(0) EXCEPT !.basic_info.market_data = TrzniInfoZ(0)],
    [Osnova(0) EXCEPT !.basic_info.market_data = Null(PraznoTrzniInfo)],
    [Osnova(0) EXCEPT !.basic_info.name = Val(ID_Squid_Game)] }

\* the rank in either location, and a null basic_info.market_data hidden
\* behind a markets rank
ViriRanga ==
  { [Osnova(0) EXCEPT !.basic_info.market_data = TrzniInfoZ(7)],
    [Osnova(12) EXCEPT !.basic_info.market_data = TrzniInfoZ(900)],
    [Osnova(300) EXCEPT !.basic_info.market_data = Null(PraznoTrzniInfo)] }

\* optional fields that are None instead of missing
NicelnaPolja ==
  { [Osnova(r) EXCEPT !.basic_info.description = Null(BrezOpisa)] : r \in {1, 300} }
  \cup
  { [Osnova(r) EXCEPT !.basic_info.description = Val(Null(BrezBesedila))] : r \in {1, 300} }
  \cup
  { [Osnova(r) EXCEPT !.basic_info.description = Val(Absent(BrezBesedila))] : r \in {1, 300} }
  \cup
  { [Osnova(r) EXCEPT !.basic_info.market_data =
        Val([PraznoTrzniInfo EXCEPT !.ath_change_percentage = Null(0)])] : r \in {1, 300} }
  \cup
  { [Osnova(300) EXCEPT !.market_data.market_cap = c,
                        !.basic_info.market_data =
        Val([PraznoTrzniInfo EXCEPT !.market_cap = Null(0)])] : c \in {0, 500} }
  \cup
  { [Osnova(300) EXCEPT !.market_data.total_volume = v,
                        !.basic_info.market_data =
        Val([PraznoTrzniInfo EXCEPT !.total_volume = Null(0)])] : v \in {0, 500} }
  \cup
  { [Osnova(300) EXCEPT !.basic_info.name = Null(<<>>)] }

\* a small set of payloads for the specifications that vary the registry
PayloadsJedro ==
  BrezRanga \cup ViriRanga \cup
  { Osnova(1),
    [Osnova(1) EXCEPT !.basic_info.name = Val(IME_Bitcoin),
                      !.basic_info.categories = <<KAT_layer1>>,
                      !.basic_info.genesis_date = Geneza(5500),
                      !.basic_info.description = Opis(OPIS_nevtralen, 1200),
                      !.market_data.market_cap = 120000000,
                      !.market_data.total_volume = 300000000],
    [Osnova(400) EXCEPT !.basic_info.name = Val(ID_Squid_Game)],
    [Osnova(400) EXCEPT !.basic_info.name = Val(ID_SQUID)],
    [Osnova(5000) EXCEPT !.basic_info.name = Val(IME_SafeMoon_Inu),
                         !.basic_info.description = Opis(OPIS_hype, 0),
                         !.market_data.market_cap = 5,
                         !.market_data.total_volume = 2,
                         !.basic_info.market_data =
                            Val([PraznoTrzniInfo EXCEPT
                                   !.ath_change_percentage = Val(-995)])],
    [Osnova(300) EXCEPT !.basic_info.description = Null(BrezOpisa)] }

--------------------------------------------------------------------------
(* KriptoKlasifikator.klasificiraj as a sequence of steps                  *)

MaxBaza == 1

\* CoinGeckoKlient.__init__, api_klient.py lines 33-42: the retry limit the
\* constructor sets, 5 with a truthy api_kljuc argument and 3 without
CoinGeckoKlient(api_kljuc) ==
  IF api_kljuc.t = "val" /\ api_kljuc.v # <<>> THEN 5 ELSE 3

\* the default argument of CoinGeckoKlient(), as KriptoKlasifikator builds it
BrezKljuca == Null(<<>>)

BrezPodatkov == Osnova(0)
NiRezultata == [ vrsta |-> "ni" ]

\* the locals of a klasificiraj call before it starts
Pocisti ==
  /\ identifikator' = <<>>
  /\ odgovor' = BrezPodatkov
  /\ podatki' = BrezPodatkov
  /\ indikatorji' = NoviIndikatorji
  /\ koncna' = 0
  /\ rezultat' = NiRezultata
  /\ klici' = <<>>

\* UpravljalecBazePrevar.dodaj_prevaro, called between classifications
DodajPrevaro ==
  /\ pc = "idle"
  /\ \E id \in KljuciDodajanja, z \in Zapisi :
        /\ Len(dodaj_prevaro(baza, id, z)) <= MaxBaza
        /\ baza' = dodaj_prevaro(baza, id, z)
  /\ UNCHANGED <<pc, identifikator, odgovor, podatki, indikatorji, koncna,
                 rezultat, klici, identifikatorji, rezultati, zdaj, _max_ponovitev>>

\* entry into klasificiraj(id)
Zacni(id) ==
  /\ pc' = "preveri"
  /\ identifikator' = id
  /\ odgovor' = BrezPodatkov
  /\ podatki' = BrezPodatkov
  /\ indikatorji' = NoviIndikatorji
  /\ koncna' = 0
  /\ rezultat' = NiRezultata
  /\ klici' = <<>>
  /\ UNCHANGED <<baza, zdaj, _max_ponovitev>>

\* a call klasificiraj(id)
Klasificiraj ==
  /\ pc = "idle"
  /\ \E id \in Identifikatorji : Zacni(id)
  /\ UNCHANGED <<identifikatorji, rezultati>>

\* Preveri without the early return on a registry hit
Preveri_brez_vrnitve ==
  /\ pc = "preveri"
  /\ klici' = Append(klici, "baza")
  /\ pc' = "pridobi"
  /\ UNCHANGED <<baza, zdaj, _max_ponovitev, identifikator, odgovor, podatki, indikatorji, koncna,
                 rezultat, identifikatorji, rezultati>>

\* klasificiraj lines 55-68: the registry lookup by identifier
Preveri ==
  /\ pc = "preveri"
  /\ klici' = Append(klici, "baza")
  /\ LET najdba == je_znana_prevara(baza, identifikator)
         ind == [ NoviIndikatorji EXCEPT
                    !.je_znana_prevara = TRUE,
                    !.podatki_znane_prevare = najdba.zapis,
                    !.verjetnost_prevare = 100,
                    !.rdeci_zastavice = ZastaviceZapisa(najdba.zapis) ]
     IN  IF najdba.najden
         THEN /\ indikatorji' = ind
              /\ rezultat' = _ustvari_porocilo_prevare(
                                GetOr(najdba.zapis.name, identifikator), ind)
              /\ pc' = "vrnjeno"
         ELSE /\ pc' = "pridobi"
              /\ UNCHANGED <<indikatorji, rezultat>>
  /\ UNCHANGED <<baza, zdaj, _max_ponovitev, identifikator, odgovor, podatki, koncna,
                 identifikatorji, rezultati>>

\* CoinGeckoKlient.pridobi_podatke_kovanca, lines 150-161: the rank check on
\* what _dobi_podrobnosti and _dobi_trzne_podatke returned
PreveriRang(p) ==
  IF p.market_data.market_cap_rank = 0 /\ p.basic_info.market_data.t = "null"
  THEN "AttributeError"                   \* None.get('market_cap_rank')
  ELSE IF /\ p.market_data.market_cap_rank = 0
          /\ GetOr(p.basic_info.market_data, PraznoTrzniInfo).market_cap_rank = 0
  THEN "ValueError"
  ELSE "ok"

\* klasificiraj lines 70-75: the provider call.  The HTTP layer fails
\* (RuntimeError), finds nothing (ValueError), or returns the details and the
\* markets entry of a coin whose id is the normalised identifier (direct
\* access) or the id a search returned.
PridobiIz(P, iskani) ==
  /\ pc = "pridobi"
  /\ klici' = Append(klici, "klient")
  /\ \/ /\ pc' = "izjema"
        /\ rezultat' \in { Izjema("RuntimeError", "HTTP napaka"),
                           Izjema("ValueError", "ni najden") }
        /\ UNCHANGED <<odgovor, podatki>>
     \/ \E p \in P, id \in {Replace(Lower(identifikator), " ", "-")} \cup iskani :
          /\ odgovor' = [p EXCEPT !.coin_id = id]
          /\ IF PreveriRang(p) = "ok"
             THEN /\ podatki' = [p EXCEPT !.coin_id = id]
                  /\ pc' = "prevare"
                  /\ UNCHANGED rezultat
             ELSE /\ pc' = "izjema"
                  /\ rezultat' =
                       IF PreveriRang(p) = "ValueError"
                       THEN Izjema("ValueError", "Manjka market cap rank")
                       ELSE Izjema("AttributeError", "NoneType: get")
                  /\ UNCHANGED podatki
  /\ UNCHANGED <<baza, zdaj, _max_ponovitev, identifikator, indikatorji, koncna,
                 identifikatorji, rezultati>>

Pridobi == PridobiIz(PayloadsJedro, {ID_squid_game})

\* klasificiraj lines 77-85: the name, the scam detector and the known-scam
\* report
Prevare ==
  /\ pc = "prevare"
  /\ klici' = Append(klici, "prevare")
  /\ LET ime == GetOr(podatki.basic_info.name, identifikator)
         ind == analiziraj_prevare(baza, podatki, ime)
     IN  IF \/ podatki.basic_info.name.t = "null"    \* None.lower()
            \/ analiziraj_prevare_raises(baza, podatki, ime)
         THEN /\ pc' = "izjema"
              /\ rezultat' = Izjema("AttributeError", "NoneType")
              /\ UNCHANGED indikatorji
         ELSE /\ indikatorji' = ind
              /\ IF ind.je_znana_prevara
                 THEN /\ rezultat' = _ustvari_porocilo_prevare(ime, ind)
                      /\ pc' = "vrnjeno"
                 ELSE /\ pc' = "oceni"
                      /\ UNCHANGED rezultat
  /\ UNCHANGED <<baza, zdaj, _max_ponovitev, identifikator, odgovor, podatki, koncna,
                 identifikatorji, rezultati>>

\* klasificiraj lines 87-142: the three analyzers, the final score and the
\* returned dict
Oceni ==
  /\ pc = "oceni"
  /\ LET ime == GetOr(podatki.basic_info.name, identifikator)
         teh == analiziraj_tehnicne(podatki)
         eko == analiziraj_ekonomske(podatki)
         soc == analiziraj_socialne(podatki)
         k == KoncnaOcena(TehnicneMetrike_izracunaj_oceno(teh),
                          EkonomskeMetrike_izracunaj_oceno(eko),
                          SocialneMetrike_izracunaj_oceno(soc),
                          indikatorji.verjetnost_prevare)
     IN  IF analiziraj_ekonomske_raises(podatki)
         THEN /\ klici' = klici \o <<"tehnicne", "ekonomske">>
              /\ pc' = "izjema"
              /\ rezultat' = Izjema("AttributeError", "NoneType: get")
              /\ UNCHANGED koncna
         ELSE IF analiziraj_socialne_raises(podatki)
         THEN /\ klici' = klici \o <<"tehnicne", "ekonomske", "socialne">>
              /\ pc' = "izjema"
              /\ rezultat' =
                   IF podatki.basic_info.description.t = "null"
                   THEN Izjema("AttributeError", "NoneType: get")
                   ELSE Izjema("TypeError", "NoneType: len")
              /\ UNCHANGED koncna
         ELSE /\ klici' = klici \o <<"tehnicne", "ekonomske", "socialne">>
              /\ koncna' = k
              /\ pc' = "vrnjeno"
              /\ \E z \in Zaokrozi2(k) :
                   rezultat' = Porocilo(ime, k, z, podatki, teh, eko, soc, indikatorji)
  /\ UNCHANGED <<baza, zdaj, _max_ponovitev, identifikator, odgovor, podatki, indikatorji,
                 identifikatorji, rezultati>>

\* the caller takes the result (or the exception)
Vrni ==
  /\ pc \in {"vrnjeno", "izjema"}
  /\ pc' = "idle"
  /\ Pocisti
  /\ UNCHANGED <<baza, zdaj, _max_ponovitev, identifikatorji, rezultati>>

Init ==
  /\ baza = <<>>
  /\ pc = "idle"
  /\ identifikator = <<>>
  /\ odgovor = BrezPodatkov
  /\ podatki = BrezPodatkov
  /\ indikatorji = NoviIndikatorji
  /\ koncna = 0
  /\ rezultat = NiRezultata
  /\ klici = <<>>
  /\ identifikatorji = <<>>
  /\ rezultati = <<>>
  /\ zdaj = Danes
  /\ _max_ponovitev = CoinGeckoKlient(BrezKljuca)

Next ==
  \/ DodajPrevaro
  \/ Klasificiraj
  \/ Preveri
  \/ Pridobi
  \/ Prevare
  \/ Oceni
  \/ Vrni

Spec == Init /\ [][Next]_vars

--------------------------------------------------------------------------
(* The package's convenience function analiziraj_kovanec                   *)

\* analiziraj_kovanec(id): KriptoKlasifikator(api_kljuc=api_kljuc) is called
\* with a keyword __init__(self, pot_do_baze) does not take, which raises
\* TypeError before klasificiraj is reached
AnalizirajKovanec ==
  /\ pc = "idle"
  /\ \E id \in Identifikatorji : identifikator' = id
  /\ klici' = <<"analiziraj_kovanec">>
  /\ pc' = "izjema"
  /\ rezultat' = Izjema("TypeError", "__init__: api_kljuc")
  /\ UNCHANGED <<baza, zdaj, _max_ponovitev, odgovor, podatki, indikatorji, koncna,
                 identifikatorji, rezultati>>

NextKovanec ==
  \/ DodajPrevaro
  \/ Klasificiraj
  \/ AnalizirajKovanec
  \/ Preveri
  \/ Pridobi
  \/ Prevare
  \/ Oceni
  \/ Vrni

SpecKovanec == Init /\ [][NextKovanec]_vars

--------------------------------------------------------------------------
(* Payload families that walk the rule tables of the analyzers             *)

Rangi == {1, 5, 10, 15, 20, 30, 50, 100, 200, 500, 1000, 5000}

\* genesis dates: missing, unparseable, in the future, today, and one day past
\* each age threshold (1, 2, 3, 4, 5, 6, 7 and 10 years)
Geneze ==
  { BrezGeneze, [t |-> "bad", dan |-> 0] }
  \cup { Geneza(d) : d \in {-30, 0, 365, 366, 731, 1096, 1461, 1826, 2191,
                            2556, 3651} }

SeznamiKategorij == { <<>>, <<KAT_layer1>>, <<KAT_token>>, <<KAT_infra>> }

PoRanguInStarosti ==
  { [Osnova(r) EXCEPT !.basic_info.genesis_date = g,
                      !.basic_info.categories = c] :
      r \in Rangi, g \in Geneze, c \in SeznamiKategorij }

InfoAth(a) == Val([PraznoTrzniInfo EXCEPT !.ath_change_percentage = Val(a)])

\* names, descriptions and market patterns the scam detector scores
ZnakiPrevare ==
  { [Osnova(r) EXCEPT !.basic_info.name = n,
                      !.basic_info.description = d,
                      !.basic_info.market_data = a,
                      !.market_data.market_cap = c,
                      !.market_data.total_volume = v] :
      r \in {5, 150, 5000},
      n \in {Val(IME_Bitcoin), Val(IME_SafeMoon_Inu)},
      d \in {Absent(BrezOpisa), Opis(OPIS_ponzi, 0), Opis(OPIS_hype, 0)},
      a \in {Absent(PraznoTrzniInfo), InfoAth(-960), InfoAth(-995)},
      c \in {0, 5, 500},
      v \in {0, 2, 50, 150} }

\* volume / market cap ratios around each band edge (cap 10 000 000 USD)
RazmerjaVolumna ==
  { [Osnova(r) EXCEPT !.basic_info.genesis_date = g,
                      !.market_data.market_cap = 1000,
                      !.market_data.total_volume = v] :
      r \in {5, 25, 40, 80, 300},
      g \in {BrezGeneze, Geneza(366), Geneza(3651)},
      v \in {0, 50, 101, 501, 1001, 2001, 4001, 8001, 15001} }

\* volumes around each liquidity band edge, some read from basic_info
Volumni ==
  { [Osnova(300) EXCEPT !.market_data.market_cap = 120000000,
                        !.market_data.total_volume = v] :
      v \in {1000, 1001, 10001, 100001, 500001, 1000001, 2000001, 5000001,
             10000001, 20000001, 300000000} }
  \cup
  { [Osnova(300) EXCEPT !.basic_info.market_data =
        Val([PraznoTrzniInfo EXCEPT !.market_cap = Val(c),
                                    !.total_volume = Val(v)])] :
      c \in {0, 1000}, v \in {0, 500001} }

Zaloge ==
  { [Osnova(60) EXCEPT !.market_data.max_supply = z[1],
                       !.market_data.circulating_supply = z[2]] :
      z \in { <<0, 0>>, <<100, 95>>, <<100, 80>>, <<100, 60>>, <<100, 40>>,
              <<100, 20>>, <<100, 0>>, <<0, 50>>, <<-1, 5>> } }
  \cup
  { [Osnova(60) EXCEPT !.market_data.max_supply = 100,
                       !.market_data.circulating_supply = 20,
                       !.basic_info.market_data =
        Val([PraznoTrzniInfo EXCEPT !.max_supply = z[1],
                                    !.circulating_supply = z[2]])] :
      z \in { <<100, 95>>, <<0, 95>>, <<200, 0>> } }

SpremembeAth ==
  { [Osnova(r) EXCEPT !.basic_info.market_data = InfoAth(a)] :
      r \in {5, 25, 40, 80, 300},
      a \in {-100, -300, -500, -700, -800, -900, -950, -995} }
  \cup
  { [Osnova(300) EXCEPT !.market_data.ath_change_percentage = a] :
      a \in {-100, -960, -995} }

SpremembeCene ==
  { [Osnova(300) EXCEPT !.market_data.price_change_percentage_7d_in_currency = c[1],
                        !.market_data.price_change_percentage_30d_in_currency = c[2]] :
      c \in { <<2, 3>>, <<8, -8>>, <<-15, 20>>, <<30, -30>>, <<45, -50>>,
              <<80, 90>> } }
  \cup
  { [Osnova(300) EXCEPT !.basic_info.market_data =
        Val([PraznoTrzniInfo EXCEPT !.price_change_percentage_7d = c[1],
                                    !.price_change_percentage_30d = c[2]])] :
      c \in { <<8, -8>>, <<80, 90>> } }

Povezave ==
  { [Osnova(r) EXCEPT !.basic_info.links =
        [ PraznePovezave EXCEPT !.homepage = h, !.whitepaper = w,
                                !.chat_url = c, !.official_forum_url = f ]] :
      r \in {20, 300},
      h \in { <<>>, <<TRUE>>, <<FALSE, TRUE>> },
      w \in BOOLEAN,
      c \in { <<>>, <<TRUE>> },
      f \in { <<>>, <<TRUE>> } }
  \cup
  { [Osnova(300) EXCEPT !.basic_info.links =
        [ PraznePovezave EXCEPT !.github = g, !.blockchain_site = b ]] :
      g \in {0, 2},
      b \in { <<>>, <<FALSE>>, <<FALSE, TRUE>> } }

Razvoj ==
  { [Osnova(r) EXCEPT !.basic_info.developer_data =
        [ stars |-> d[1], forks |-> d[2], commit_count_4_weeks |-> d[3] ]] :
      r \in {5, 600},
      d \in { <<60000, 25000, 0>>, <<60000, 15000, 0>>, <<40000, 6000, 0>>,
              <<20000, 100, 0>>, <<6000, 0, 0>>, <<2000, 0, 0>>, <<600, 0, 0>>,
              <<0, 0, 60>>, <<200, 0, 0>>, <<0, 0, 30>>, <<1, 0, 0>>,
              <<0, 0, 1>>, <<0, 500, 0>> } }

Skupnosti ==
  { [Osnova(r) EXCEPT !.basic_info.community_data =
        [ PraznaSkupnost EXCEPT !.twitter_followers = t,
                                !.reddit_subscribers = d,
                                !.telegram_channel_user_count = g ]] :
      r \in {5, 25, 40, 80, 300},
      t \in {0, 5000, 10001, 50001, 100001, 200001, 500001, 1000001, 6000000},
      d \in {0, 5001, 10001, 20001, 50001, 100001},
      g \in {0, 2000000} }
  \cup
  { [Osnova(r) EXCEPT !.basic_info.community_data =
        [ PraznaSkupnost EXCEPT !.reddit_accounts_active_48h = a ]] :
      r \in {15, 40, 80, 300},
      a \in {0, 100, 101, 501, 1001, 2001, 5001, 10001} }

Sentimenti ==
  { [Osnova(300) EXCEPT !.basic_info.sentiment_votes_up_percentage = x] :
      x \in {0, 30, 45, 60, 70, 90} }

\* description lengths around 200, 500 and 1000, with and without whitepaper
Opisi ==
  { [Osnova(300) EXCEPT !.basic_info.description = Opis(t, n),
                        !.basic_info.links.whitepaper = w] :
      t \in {<<>>, OPIS_nevtralen}, n \in {0, 200, 500, 1000}, w \in BOOLEAN }

\* rank 1, market cap 1.2e12 USD, volume 3e10 USD, 15 years old, nothing else
ScenarijA ==
  [Osnova(1) EXCEPT !.market_data.market_cap = 120000000,
                    !.market_data.total_volume = 300000000,
                    !.basic_info.genesis_date = Geneza(Leta(15))]

\* rank 5000, market cap 50 000 USD, volume 200 USD, a description holding
\* 'guaranteed return', ATH change -99.5 %; the name, the further text of the
\* description and the place of cap, volume and ATH change vary
ScenarijC ==
  { [Osnova(5000) EXCEPT !.basic_info.name = n,
                         !.basic_info.description = Opis(d, 0),
                         !.market_data.market_cap = m[1],
                         !.market_data.total_volume = m[2],
                         !.market_data.ath_change_percentage = m[3],
                         !.basic_info.market_data =
                            Val([PraznoTrzniInfo EXCEPT
                                   !.market_cap = m[4],
                                   !.total_volume = m[5],
                                   !.ath_change_percentage = Val(-995)])] :
      n \in {Absent(<<>>), Val(IME_Bitcoin), Val(IME_SafeMoon_Inu)},
      d \in {rdece_fraze[1], OPIS_ponzi, OPIS_hype},
      m \in { <<5, 2, -995, Absent(0), Absent(0)>>,
              <<5, 2, 0, Absent(0), Absent(0)>>,
              <<5, 2, -995, Val(5), Val(2)>>,
              <<0, 0, 0, Val(5), Val(2)>> } }

\* a description holding four of the phrases
OPIS_stirih_fraz ==
  rdece_fraze[1] \o <<" ">> \o rdece_fraze[2] \o <<" ">> \o rdece_fraze[6]
  \o <<" ">> \o rdece_fraze[10]

\* category labels on payloads with and without the signs the detector scores
KategorijeSPrevaro ==
  { [Osnova(r) EXCEPT !.basic_info.name = n,
                      !.basic_info.description = d,
                      !.basic_info.categories = c,
                      !.basic_info.market_data = m[1],
                      !.market_data.market_cap = m[2],
                      !.market_data.total_volume = m[3]] :
      r \in {80, 100, 101, 5000},
      n \in {Val(IME_Bitcoin), Val(IME_SafeMoon_Inu)},
      d \in {Absent(BrezOpisa), Opis(OPIS_ponzi, 0), Opis(OPIS_stirih_fraz, 0)},
      c \in SeznamiKategorij,
      m \in { <<Absent(PraznoTrzniInfo), 0, 0>>, <<InfoAth(-995), 5, 2>> } }

\* the payloads with the lowest and the highest final score found by a search
\* over the rule tables of the analyzers and of the detector
NajslabsiPayload ==
  [Osnova(5000) EXCEPT
     !.basic_info.name = Val(IME_hype),
     !.basic_info.categories = <<KAT_token>>,
     !.basic_info.genesis_date = Geneza(-30),
     !.basic_info.market_data = InfoAth(-995),
     !.basic_info.developer_data.forks = 25000,
     !.basic_info.community_data.twitter_followers = 20000,
     !.basic_info.community_data.reddit_accounts_active_48h = 200,
     !.basic_info.sentiment_votes_up_percentage = 30,
     !.market_data.market_cap = 500,
     !.market_data.max_supply = 100,
     !.market_data.circulating_supply = 10,
     !.market_data.ath_change_percentage = -995,
     !.market_data.price_change_percentage_7d_in_currency = 80,
     !.market_data.price_change_percentage_30d_in_currency = 20]

NajboljsiPayload ==
  [Osnova(1) EXCEPT
     !.basic_info.name = Val(IME_Bitcoin),
     !.basic_info.description = Opis(OPIS_nevtralen, 1100),
     !.basic_info.genesis_date = Geneza(Leta(11)),
     !.basic_info.market_data = InfoAth(-50),
     !.basic_info.links = [ github |-> 1, blockchain_site |-> <<>>,
                            homepage |-> <<TRUE>>, whitepaper |-> TRUE,
                            chat_url |-> <<TRUE>>,
                            official_forum_url |-> <<TRUE>> ],
     !.basic_info.developer_data =
        [ stars |-> 60000, forks |-> 25000, commit_count_4_weeks |-> 200 ],
     !.basic_info.community_data.twitter_followers = 6000000,
     !.basic_info.community_data.reddit_accounts_active_48h = 20000,
     !.basic_info.sentiment_votes_up_percentage = 85,
     !.market_data.market_cap = 500,
     !.market_data.total_volume = 50000000,
     !.market_data.max_supply = 100,
     !.market_data.circulating_supply = 95,
     !.market_data.price_change_percentage_30d_in_currency = -8]

PayloadsOcene ==
  {ScenarijA, NajslabsiPayload, NajboljsiPayload} \cup ScenarijC \cup KategorijeSPrevaro \cup PoRanguInStarosti \cup ZnakiPrevare \cup RazmerjaVolumna \cup Volumni
  \cup Zaloge \cup SpremembeAth \cup SpremembeCene \cup Povezave \cup Razvoj
  \cup Skupnosti \cup Sentimenti \cup Opisi \cup NicelnaPolja \cup ViriRanga
  \cup BrezRanga \cup PayloadsJedro

\* the scoring pipeline over the payload families, with a loaded registry
PridobiOcene == PridobiIz(PayloadsOcene, {})

InitOcene ==
  /\ baza = <<[kljuc |-> ID_squid_game, zapis |-> Z_squid]>>
  /\ pc = "idle"
  /\ identifikator = <<>>
  /\ odgovor = BrezPodatkov
  /\ podatki = BrezPodatkov
  /\ indikatorji = NoviIndikatorji
  /\ koncna = 0
  /\ rezultat = NiRezultata
  /\ klici = <<>>
  /\ identifikatorji = <<>>
  /\ rezultati = <<>>
  /\ zdaj = Danes
  /\ _max_ponovitev = CoinGeckoKlient(BrezKljuca)

KlasificirajOcene ==
  /\ pc = "idle"
  /\ \E id \in {ID_bitcoin, ID_SQUID} : Zacni(id)
  /\ UNCHANGED <<identifikatorji, rezultati>>

NextOcene ==
  \/ KlasificirajOcene
  \/ Preveri
  \/ PridobiOcene
  \/ Prevare
  \/ Oceni
  \/ Vrni

SpecOcene == InitOcene /\ [][NextOcene]_vars

--------------------------------------------------------------------------
(* KriptoKlasifikator.batch_analiziraj                                     *)

MaxBatch == 2

IdentifikatorjiBatch == { ID_bitcoin, ID_SQUID, ID_safemoon }

PayloadsBatch ==
  { Osnova(1),
    Osnova(0),
    [Osnova(300) EXCEPT !.basic_info.description = Null(BrezOpisa)] }

\* the dict appended by the except branch: {'ime': ident, 'napaka': str(e)}
ZapisNapake(ident, izjema) ==
  [ vrsta |-> "napaka", ime |-> ident, napaka |-> izjema.sporocilo ]

\* a call batch_analiziraj(identifikatorji): rezultati = []
BatchZacni ==
  /\ pc = "idle"
  /\ \E n \in 0..MaxBatch :
       \E seznam \in [1..n -> IdentifikatorjiBatch] : identifikatorji' = seznam
  /\ rezultati' = <<>>
  /\ pc' = "batch"
  /\ Pocisti
  /\ UNCHANGED <<baza, zdaj, _max_ponovitev>>

\* the loop header and the try: klasificiraj(ident) for the next identifier
BatchNaslednji ==
  /\ pc = "batch"
  /\ Len(rezultati) < Len(identifikatorji)
  /\ Zacni(identifikatorji[Len(rezultati) + 1])
  /\ UNCHANGED <<identifikatorji, rezultati>>

PridobiBatch == PridobiIz(PayloadsBatch, {})

\* BatchZapisi without the except branch: the exception leaves the loop
BatchZapisi_brez_except ==
  /\ pc \in {"vrnjeno", "izjema"}
  /\ IF pc = "vrnjeno"
     THEN /\ rezultati' = Append(rezultati, rezultat)
          /\ pc' = "batch"
     ELSE /\ pc' = "idle"
          /\ UNCHANGED rezultati
  /\ Pocisti
  /\ UNCHANGED <<baza, zdaj, _max_ponovitev, identifikatorji>>

\* the end of the try and the except branch: the result or the error record
\* is appended
BatchZapisi ==
  /\ pc \in {"vrnjeno", "izjema"}
  /\ rezultati' =
       Append(rezultati,
              IF pc = "vrnjeno" THEN rezultat
              ELSE ZapisNapake(identifikator, rezultat))
  /\ pc' = "batch"
  /\ Pocisti
  /\ UNCHANGED <<baza, zdaj, _max_ponovitev, identifikatorji>>

\* return rezultati
BatchVrni ==
  /\ pc = "batch"
  /\ Len(rezultati) = Len(identifikatorji)
  /\ pc' = "idle"
  /\ UNCHANGED <<baza, zdaj, _max_ponovitev, identifikator, odgovor, podatki, indikatorji, koncna,
                 rezultat, klici, identifikatorji, rezultati>>

NextBatch ==
  \/ BatchZacni
  \/ BatchNaslednji
  \/ Preveri
  \/ PridobiBatch
  \/ Prevare
  \/ Oceni
  \/ BatchZapisi
  \/ BatchVrni

SpecBatch == InitOcene /\ [][NextBatch]_vars

--------------------------------------------------------------------------
(* Repeated classification of the same coins while the clock advances      *)

MaxUra == 2

\* what the provider holds for each coin: the same payload on every call
PayloadUra(id) ==
  IF id = ID_bitcoin
  THEN [Osnova(1) EXCEPT !.basic_info.name = Val(IME_Bitcoin),
                         !.basic_info.categories = <<KAT_layer1>>,
                         !.basic_info.genesis_date = Geneza(3650),
                         !.market_data.market_cap = 120000000,
                         !.market_data.total_volume = 300000000]
  ELSE [Osnova(300) EXCEPT !.basic_info.name = Val(id)]

PridobiUra == PridobiIz({PayloadUra(identifikator)}, {})

\* midnight passes: datetime.now() moves to the next day
Tik ==
  /\ zdaj < Danes + MaxUra
  /\ zdaj' = zdaj + 1
  /\ UNCHANGED <<baza, _max_ponovitev, pc, identifikator, odgovor, podatki, indikatorji, koncna,
                 rezultat, klici, identifikatorji, rezultati>>

NextUra ==
  \/ BatchZacni
  \/ BatchNaslednji
  \/ Preveri
  \/ PridobiUra
  \/ Prevare
  \/ Oceni
  \/ BatchZapisi
  \/ BatchVrni
  \/ Tik

SpecUra == InitOcene /\ [][NextUra]_vars

--------------------------------------------------------------------------
(* Lookups in a registry loaded from scam_indicators.json                  *)

\* a record whose name and symbol differ from its key
Z_brez_simbola == [ Z_squid EXCEPT !.symbol = Absent(<<>>) ]

\* znane_prevare after _nalozi_bazo: the keys are those of the JSON object
\* 'known_scam_coins', kept as they are written in the file
NalozeneBaze ==
  { <<>>,
    <<[kljuc |-> ID_squid_game, zapis |-> Z_squid]>>,
    <<[kljuc |-> ID_squid_game, zapis |-> Z_brez_simbola]>>,
    <<[kljuc |-> Upper(ID_squid_game), zapis |-> Z_squid]>>,
    <<[kljuc |-> ID_SQUID, zapis |-> Z_brez_simbola]>>,
    <<[kljuc |-> ID_Squid_Game, zapis |-> NiZapisa]>> }

\* the last one is the identifier of a payload without coin_id
IdentifikatorjiIskanja ==
  { ID_squid_game, Upper(ID_squid_game), ID_Squid_Game, Lower(ID_Squid_Game),
    ID_SQUID, Lower(ID_SQUID), ID_bitcoin, <<>> }

MaxIskanj == 2

InitIskanje ==
  /\ baza \in NalozeneBaze
  /\ pc = "idle"
  /\ identifikator = <<>>
  /\ odgovor = BrezPodatkov
  /\ podatki = BrezPodatkov
  /\ indikatorji = NoviIndikatorji
  /\ koncna = 0
  /\ rezultat = NiRezultata
  /\ klici = <<>>
  /\ identifikatorji = <<>>
  /\ rezultati = <<>>
  /\ zdaj = Danes
  /\ _max_ponovitev = CoinGeckoKlient(BrezKljuca)

\* a call je_znana_prevara(id) whose answer the caller keeps
Poisci ==
  /\ pc = "idle"
  /\ Len(rezultati) < MaxIskanj
  /\ \E id \in IdentifikatorjiIskanja :
       /\ identifikatorji' = Append(identifikatorji, id)
       /\ rezultati' = Append(rezultati, je_znana_prevara(baza, id))
  /\ UNCHANGED <<baza, zdaj, _max_ponovitev, pc, identifikator, odgovor, podatki, indikatorji,
                 koncna, rezultat, klici>>

\* the caller drops the answers it kept
Pozabi ==
  /\ pc = "idle"
  /\ rezultati # <<>>
  /\ identifikatorji' = <<>>
  /\ rezultati' = <<>>
  /\ UNCHANGED <<baza, zdaj, _max_ponovitev, pc, identifikator, odgovor, podatki, indikatorji,
                 koncna, rezultat, klici>>

NextIskanje ==
  \/ Poisci
  \/ Pozabi

SpecIskanje == InitIskanje /\ [][NextIskanje]_vars

--------------------------------------------------------------------------
(* A log of dodaj_prevaro and je_znana_prevara calls on one registry       *)

\* identifiers that differ only in letter case, spaces, underscores or hyphens
IdentifikatorjiVstavljanja ==
  { ID_squid_game, Replace(ID_squid_game, "-", "_"), ID_Squid_Game,
    Lower(ID_Squid_Game) }

ZapisiVstavljanja == { Z_squid, Z_visok }

MaxKlicev == 3

\* dodaj_prevaro(id, zapis); the log keeps the arguments of the call
Vstavi ==
  /\ pc = "idle"
  /\ Len(klici) < MaxKlicev
  /\ \E id \in IdentifikatorjiVstavljanja, z \in ZapisiVstavljanja :
       /\ baza' = dodaj_prevaro(baza, id, z)
       /\ klici' = Append(klici, "dodaj_prevaro")
       /\ identifikatorji' = Append(identifikatorji, id)
       /\ rezultati' = Append(rezultati, [najden |-> TRUE, zapis |-> z])
  /\ UNCHANGED <<zdaj, _max_ponovitev, pc, identifikator, odgovor, podatki, indikatorji,
                 koncna, rezultat>>

\* je_znana_prevara(id); the log keeps the argument and the returned pair
PoisciVstavljeno ==
  /\ pc = "idle"
  /\ Len(klici) < MaxKlicev
  /\ \E id \in IdentifikatorjiVstavljanja :
       /\ klici' = Append(klici, "je_znana_prevara")
       /\ identifikatorji' = Append(identifikatorji, id)
       /\ rezultati' = Append(rezultati, je_znana_prevara(baza, id))
  /\ UNCHANGED <<baza, zdaj, _max_ponovitev, pc, identifikator, odgovor, podatki, indikatorji,
                 koncna, rezultat>>

NextVstavljanje ==
  \/ Vstavi
  \/ PoisciVstavljeno

SpecVstavljanje == Init /\ [][NextVstavljanje]_vars

--------------------------------------------------------------------------
(* One provider request: CoinGeckoKlient._izvedi_zahtevo                    *)

\* what one self.seja.get can do: a 2xx answer, a 404, a 429, another HTTP
\* error status (raise_for_status), or an exception of the transport
IzidiHTTP == {"200", "404", "429", "HTTPError", "RequestException"}

\* the outcomes after which the loop may go round again
IzidiPonovitve == {"429", "HTTPError", "RequestException"}

\* the outcomes of the attempts of the running request, in order
PoskusiZahteve == SelectSeq(klici, LAMBDA k : k \in IzidiHTTP)

\* the request runs inside klasificiraj (line 71) and not on its own
V_klasifikaciji == \E i \in 1..Len(klici) : klici[i] = "klient"

\* a guard that lets the except branches go round after every attempt
Ponovi_vedno(poskus, max_ponovitev) == poskus < max_ponovitev

\* api_klient.py lines 82 and 89: the except branches sleep and continue
\* on every attempt but the last
Ponovi(poskus, max_ponovitev) == poskus < max_ponovitev - 1

\* the api_kljuc arguments a client is built with
KljuciAPI == {BrezKljuca, Val(<<>>), Val(<<"C", "G">>)}

\* the bodies the provider answers with
PayloadsZahteve == {Osnova(1), Osnova(400)}

\* a request made directly on a client built with or without a key
ZacniZahtevo ==
  /\ pc = "idle"
  /\ \E kljuc \in KljuciAPI : _max_ponovitev' = CoinGeckoKlient(kljuc)
  /\ pc' = "zahteva"
  /\ UNCHANGED <<baza, zdaj, identifikator, odgovor, podatki, indikatorji,
                 koncna, rezultat, klici, identifikatorji, rezultati>>

\* klasificiraj line 71: the one call of pridobi_podatke_kovanca, which
\* starts its first request (_dobi_podrobnosti) on the classifier's client
PridobiZahteva ==
  /\ pc = "pridobi"
  /\ klici' = Append(klici, "klient")
  /\ _max_ponovitev' = CoinGeckoKlient(BrezKljuca)
  /\ pc' = "zahteva"
  /\ UNCHANGED <<baza, zdaj, identifikator, odgovor, podatki, indikatorji,
                 koncna, rezultat, identifikatorji, rezultati>>

\* _izvedi_zahtevo lines 62-95: one round of the loop, and the raise after
\* the loop when the last round ends in a 429
IzvediZahtevo ==
  /\ pc = "zahteva"
  /\ LET poskus == Len(PoskusiZahteve)
         vrnjeno == IF V_klasifikaciji THEN "odgovor" ELSE "vrnjeno"
     IN  /\ poskus < _max_ponovitev
         /\ \E izid \in IzidiHTTP :
              /\ klici' = Append(klici, izid)
              /\ CASE izid = "200" ->
                        /\ \E p \in PayloadsZahteve : odgovor' = p
                        /\ pc' = vrnjeno
                        /\ UNCHANGED rezultat
                   [] izid = "404" ->
                        /\ odgovor' = BrezPodatkov
                        /\ pc' = vrnjeno
                        /\ UNCHANGED rezultat
                   [] izid = "429" ->
                        IF poskus + 1 < _max_ponovitev
                        THEN /\ pc' = "zahteva"
                             /\ UNCHANGED <<odgovor, rezultat>>
                        ELSE /\ pc' = "izjema"
                             /\ rezultat' = Izjema("RuntimeError", "rate limit")
                             /\ UNCHANGED odgovor
                   [] OTHER ->
                        IF Ponovi(poskus, _max_ponovitev)
                        THEN /\ pc' = "zahteva"
                             /\ UNCHANGED <<odgovor, rezultat>>
                        ELSE /\ pc' = "izjema"
                             /\ rezultat' = Izjema("RuntimeError", izid)
                             /\ UNCHANGED odgovor
  /\ UNCHANGED <<baza, zdaj, _max_ponovitev, identifikator, podatki,
                 indikatorji, koncna, identifikatorji, rezultati>>

\* pridobi_podatke_kovanca lines 137-161, after the first request returned:
\* the search and the second details request when it returned None, the
\* markets request, and the rank check
PridobiOdgovor ==
  /\ pc = "odgovor"
  /\ LET ni == odgovor = BrezPodatkov
     IN  \/ /\ pc' = "izjema"
            /\ rezultat' \in
                 {Izjema("RuntimeError", "HTTP napaka")} \cup
                 (IF ni THEN {Izjema("ValueError", "ni najden")} ELSE {})
            /\ UNCHANGED <<odgovor, podatki>>
         \/ \E b \in (IF ni THEN PayloadsZahteve ELSE {odgovor}),
               q \in PayloadsZahteve,
               id \in (IF ni THEN {ID_squid_game}
                             ELSE {Replace(Lower(identifikator), " ", "-")}) :
              LET p == [b EXCEPT !.market_data = q.market_data,
                                 !.coin_id = id]
              IN  /\ odgovor' = p
                  /\ IF PreveriRang(p) = "ok"
                     THEN /\ podatki' = p
                          /\ pc' = "prevare"
                          /\ UNCHANGED rezultat
                     ELSE /\ pc' = "izjema"
                          /\ rezultat' =
                               IF PreveriRang(p) = "ValueError"
                               THEN Izjema("ValueError", "Manjka market cap rank")
                               ELSE Izjema("AttributeError", "NoneType: get")
                          /\ UNCHANGED podatki
  /\ UNCHANGED <<baza, zdaj, _max_ponovitev, identifikator, indikatorji,
                 koncna, klici, identifikatorji, rezultati>>

NextZahteva ==
  \/ DodajPrevaro
  \/ Klasificiraj
  \/ Preveri
  \/ ZacniZahtevo
  \/ PridobiZahteva
  \/ IzvediZahtevo
  \/ PridobiOdgovor
  \/ Prevare
  \/ Oceni
  \/ Vrni

SpecZahteva == Init /\ [][NextZahteva]_vars

--------------------------------------------------------------------------
(* Properties                                                              *)

\* the name klasificiraj hands to the scam detector (line 77)
ImeKovanca == GetOr(podatki.basic_info.name, identifikator)

\* the provider returned a payload (the response names the coin it describes)
ImaOdgovor == odgovor.coin_id # <<>>

\* klasificiraj got a payload back from the provider
ImaPodatke == podatki.coin_id # <<>>

\* the step of this classification that has already run
JeTekel(korak) == \E i \in 1..Len(klici) : klici[i] = korak

\* the registry reports the identifier itself
ZadetekPoIdentifikatorju ==
  /\ JeTekel("baza")
  /\ je_znana_prevara(baza, identifikator).najden

\* the registry reports the project name or the coin id of the payload
ZadetekPoPodatkih ==
  /\ JeTekel("prevare")
  /\ podatki.basic_info.name.t # "null"
  /\ \/ je_znana_prevara(baza, ImeKovanca).najden
     \/ je_znana_prevara(baza, podatki.coin_id).najden

C3_OznakeIzNabora ==
  pc = "vrnjeno" =>
     /\ rezultat.stopnja_tveganja \in StopnjaTveganja
     /\ rezultat.kategorija \in KategorijaProjekta
     /\ rezultat.vrsta = "prevara" => rezultat.stopnja_tveganja = KRITICNO

\* C4: in every result klasificiraj returns, on the scored path and on the
\* known-scam path, the final score lies between 0 and 100 (in hundredths).
C4_KoncnaOcenaVMejah ==
  pc = "vrnjeno" =>
     /\ rezultat.koncna_ocena >= 0
     /\ rezultat.koncna_ocena <= 10000

\* C7: within one classification the registry lookup is the first step, before
\* the provider, the detector and every analyzer; and when the identifier
\* itself hits the registry the known-scam report is returned with no
\* provider fetch and no analyzer run.
C7_RegisterPredAnalizo ==
  /\ klici # <<>> => klici[1] = "baza"
  /\ \A i \in 2..Len(klici) : klici[i] # "baza"
  /\ pc \notin {"idle", "preveri", "batch"} => JeTekel("baza")
  /\ ZadetekPoIdentifikatorju =>
        /\ klici = <<"baza">>
        /\ pc = "vrnjeno"
        /\ rezultat.vrsta = "prevara"
        /\ ~ImaOdgovor

\* C7 witness: the report of a registry hit on the identifier, returned after
\* the lookup alone.
C7_VrnjenoBrezAnalize ==
  /\ pc = "vrnjeno"
  /\ rezultat.vrsta = "prevara"
  /\ klici = <<"baza">>
  /\ je_znana_prevara(baza, identifikator).najden

\* the response holds no rank in the markets entry nor in the details
BrezResljivegaRanga ==
  /\ ImaOdgovor
  /\ odgovor.market_data.market_cap_rank = 0
  /\ GetOr(odgovor.basic_info.market_data, PraznoTrzniInfo).market_cap_rank = 0

\* C9: a payload with no resolvable rank makes the classification fail with
\* the incomplete-data error ("Manjka market cap rank") and is never handed
\* to the detector or the analyzers.
C9_BrezRangaNepopolniPodatki ==
  BrezResljivegaRanga =>
     /\ pc = "izjema"
     /\ rezultat = Izjema("ValueError", "Manjka market cap rank")
     /\ ~ImaPodatke

\* C2: on the scored path a fraud probability above 0.8 (80 points) gives the
\* risk tier "Critical Risk - Likely Scam" whatever the final score is.
C2_VisokaVerjetnostJeKriticna ==
  (rezultat.vrsta = "porocilo" /\ rezultat.verjetnost_prevare > 80) =>
     rezultat.stopnja_tveganja = KRITICNO

\* C2 witness: probability above 0.8 with a final score of at least 25, which
\* the score bands alone would not call critical.
C2_KriticnaKljubOceni ==
  /\ pc = "vrnjeno"
  /\ rezultat.vrsta = "porocilo"
  /\ rezultat.verjetnost_prevare > 80
  /\ ~indikatorji.je_znana_prevara
  /\ koncna >= Ocena(25)
  /\ rezultat.stopnja_tveganja = KRITICNO

\* every sub-score of a metric set lies in [0, 10] (tenths)
PodoceneVMejah(m) == \A f \in DOMAIN m : m[f] >= 0 /\ m[f] <= 100

\* an axis score lies in [0, 100] (hundredths)
OsVMejah(ocena) == ocena >= 0 /\ ocena <= 10000

\* C5: for every payload the three analyzers accept, every sub-score lies in
\* [0, 10] and each axis score computed by izracunaj_oceno lies in [0, 100].
C5_OceneVMejah ==
  ImaPodatke =>
     /\ PodoceneVMejah(analiziraj_tehnicne(podatki))
     /\ OsVMejah(TehnicneMetrike_izracunaj_oceno(analiziraj_tehnicne(podatki)))
     /\ ~analiziraj_ekonomske_raises(podatki) =>
          /\ PodoceneVMejah(analiziraj_ekonomske(podatki))
          /\ OsVMejah(EkonomskeMetrike_izracunaj_oceno(analiziraj_ekonomske(podatki)))
     /\ ~analiziraj_socialne_raises(podatki) =>
          /\ PodoceneVMejah(analiziraj_socialne(podatki))
          /\ OsVMejah(SocialneMetrike_izracunaj_oceno(analiziraj_socialne(podatki)))
     /\ rezultat.vrsta = "porocilo" =>
          /\ PodoceneVMejah(rezultat.tehnicne_metrike)
          /\ PodoceneVMejah(rezultat.ekonomske_metrike)
          /\ PodoceneVMejah(rezultat.socialne_metrike)
          /\ OsVMejah(rezultat.tehnicna_ocena)
          /\ OsVMejah(rezultat.ekonomska_ocena)
          /\ OsVMejah(rezultat.socialna_ocena)

\* the sub-scores of a report
Podocene(r) ==
  { r.tehnicne_metrike[f] : f \in DOMAIN r.tehnicne_metrike }
  \cup { r.ekonomske_metrike[f] : f \in DOMAIN r.ekonomske_metrike }
  \cup { r.socialne_metrike[f] : f \in DOMAIN r.socialne_metrike }

\* C5 witness: a report that holds both the highest band (9.5) and the lowest
\* band (4.0) of the analyzers' tables.
C5_RobneOcene ==
  /\ pc = "vrnjeno"
  /\ rezultat.vrsta = "porocilo"
  /\ \E x \in Podocene(rezultat) : x = 95
  /\ \E x \in Podocene(rezultat) : x = 40

\* (0.40 * t + 0.35 * e + 0.25 * s) * penalty in the unit of `koncna`, for
\* axis scores in hundredths and the probability in points: both sides of the
\* equation are multiplied by 2 000 000
Kaznovana(t, e, s, tocke) ==
  IF tocke > 0
  THEN (40 * t + 35 * e + 25 * s) * (200 - tocke)
  ELSE (40 * t + 35 * e + 25 * s) * 200

\* C6: on the scored path the final score is
\* (0.40 * technical + 0.35 * economic + 0.25 * social) * penalty with
\* penalty = 1 - 0.5 * probability when probability > 0 and 1 otherwise (the
\* reported value is this, rounded to two decimals), and the letter grade,
\* the risk tier and the category are those of the penalised value.
C6_KoncnaOcenaSKaznijo ==
  rezultat.vrsta = "porocilo" =>
     LET k == Kaznovana(rezultat.tehnicna_ocena, rezultat.ekonomska_ocena,
                        rezultat.socialna_ocena, rezultat.verjetnost_prevare)
     IN  /\ koncna = k
         /\ 2 * Abs(rezultat.koncna_ocena * 20000 - k) <= 20000
         /\ rezultat.ocena_crka = _doloci_crko(k)
         /\ rezultat.stopnja_tveganja = _doloci_stopnjo(k, indikatorji)
         /\ rezultat.kategorija = _doloci_kategorijo(podatki, k)

\* C6 witness: a report whose penalty moved the letter grade and the category
\* away from those of the unpenalised weighted sum.
C6_KazenSpremeniOceno ==
  /\ pc = "vrnjeno"
  /\ rezultat.vrsta = "porocilo"
  /\ rezultat.verjetnost_prevare > 0
  /\ LET brez == Kaznovana(rezultat.tehnicna_ocena, rezultat.ekonomska_ocena,
                           rezultat.socialna_ocena, 0)
     IN  /\ rezultat.ocena_crka # _doloci_crko(brez)
         /\ rezultat.kategorija # _doloci_kategorijo(podatki, brez)

\* C10: for a payload that has a rank and a name, with any of the optional
\* fields absent or null, the detector, the analyzers and the classifier
\* never raise: no exception follows the provider call.
C10_NeobveznaPoljaNeSprozijoIzjem ==
  (ImaPodatke /\ podatki.basic_info.name.t # "null") => pc # "izjema"

\* an entry of the batch result is the error record of its identifier or a
\* result of klasificiraj
VnosUstreza(i) ==
  \/ /\ rezultati[i].vrsta = "napaka"
     /\ rezultati[i].ime = identifikatorji[i]
     /\ rezultati[i].napaka # ""
  \/ rezultati[i].vrsta \in {"prevara", "porocilo"}

\* the batch never holds more entries than inputs, and has one per input
\* when it returns
C8_Stanje ==
  /\ Len(rezultati) <= Len(identifikatorji)
  /\ \A i \in 1..Len(rezultati) : VnosUstreza(i)
  /\ pc = "idle" => Len(rezultati) = Len(identifikatorji)
  /\ pc \in {"vrnjeno", "izjema"} =>
        /\ Len(rezultati) < Len(identifikatorji)
        /\ identifikator = identifikatorji[Len(rezultati) + 1]

\* the result list only changes by being emptied at the start of a batch or
\* by gaining, at its end, the outcome of the classification that just ended:
\* its result, or the error record with its identifier and cause
C8_Korak ==
  rezultati' # rezultati =>
     \/ pc = "idle" /\ rezultati' = <<>>
     \/ /\ pc = "vrnjeno"
        /\ identifikatorji' = identifikatorji
        /\ rezultati' = Append(rezultati, rezultat)
     \/ /\ pc = "izjema"
        /\ identifikatorji' = identifikatorji
        /\ rezultati' =
             Append(rezultati,
                    [ vrsta |-> "napaka",
                      ime |-> identifikatorji[Len(rezultati) + 1],
                      napaka |-> rezultat.sporocilo ])

\* C8: batch_analiziraj never aborts on a failing item: it returns exactly one
\* entry per input identifier, in input order, the error record (identifier
\* and cause) for an item that failed and the result of klasificiraj for
\* every other item.
C8_PaketNePrekine == []C8_Stanje /\ [][C8_Korak]_vars

\* C8 witness: a returned batch of two whose first item failed and whose
\* second item has its normal result.
C8_NapakaInRezultat ==
  /\ pc = "idle"
  /\ Len(identifikatorji) = 2
  /\ Len(rezultati) = 2
  /\ rezultati[1].vrsta = "napaka"
  /\ rezultati[1].ime = identifikatorji[1]
  /\ rezultati[2].vrsta = "porocilo"

\* C11: two calls of klasificiraj with the same payload and registry return
\* equal results, whenever the two calls happen (the reports of the model
\* carry no timestamp)
C11_EnakaRezultata ==
  \A i, j \in 1..Len(rezultati) :
     ( /\ identifikatorji[i] = identifikatorji[j]
       /\ rezultati[i].vrsta # "napaka"
       /\ rezultati[j].vrsta # "napaka" )
     => rezultati[i] = rezultati[j]

\* C12: when the genesis date is absent the three analyzers use the same
\* inferred age, given by the rank bands <=10 -> 8, <=20 -> 6, <=50 -> 4,
\* <=100 -> 3, <=200 -> 2, else 1 (years)
C12_EnakaSklepanaStarost ==
  ( /\ ImaPodatke
    /\ JeTekel("socialne")
    /\ podatki.basic_info.genesis_date.t = "none" )
  => LET rang == _dobi_rang(podatki)
         pas == IF rang <= 10 THEN Leta(8)
                ELSE IF rang <= 20 THEN Leta(6)
                ELSE IF rang <= 50 THEN Leta(4)
                ELSE IF rang <= 100 THEN Leta(3)
                ELSE IF rang <= 200 THEN Leta(2)
                ELSE Leta(1)
     IN  /\ StarostTehnicne(podatki) = pas
         /\ StarostEkonomske(podatki) = pas
         /\ StarostSocialne(podatki) = pas

\* C18: the project age the analyzers use is never negative, whatever the
\* genesis date and the rank
C18_StarostNiNegativna ==
  (ImaPodatke /\ JeTekel("socialne"))
  => /\ StarostTehnicne(podatki) >= 0
     /\ StarostEkonomske(podatki) >= 0
     /\ StarostSocialne(podatki) >= 0

\* the provider returned payload p and klasificiraj returned its report
OcenjenPayload(p) ==
  /\ pc = "vrnjeno"
  /\ rezultat.vrsta = "porocilo"
  /\ podatki = [p EXCEPT !.coin_id = podatki.coin_id]

\* C13: the payload with rank 1, market cap 1.2e12, volume 3e10, age 15 years
\* and nothing else gets a grade in {A, A+}, a tier in {Very Low, Low} and
\* the category Layer 1
C13_ScenarijA ==
  OcenjenPayload(ScenarijA)
  => /\ rezultat.ocena_crka \in {"A", "A+"}
     /\ rezultat.stopnja_tveganja \in {ZELO_NIZKO, NIZKO}
     /\ rezultat.kategorija = LAYER_1

\* the scam detector has returned the indicators of payload p
ZaznanPayload(p) ==
  /\ JeTekel("prevare")
  /\ pc \in {"oceni", "vrnjeno"}
  /\ podatki = [p EXCEPT !.coin_id = podatki.coin_id]

C15_IskanjeNeLociVelikosti ==
  \A i, j \in 1..Len(rezultati) :
     Lower(identifikatorji[i]) = Lower(identifikatorji[j])
     => rezultati[i] = rezultati[j]

\* payload p with its 24h volume set to v, in the place that holds it
VolumenNa(p, v) ==
  IF p.market_data.total_volume # 0 \/ TrzniInfo(p).total_volume.t # "val"
  THEN [p EXCEPT !.market_data.total_volume = v]
  ELSE [p EXCEPT !.basic_info.market_data =
                    Val([TrzniInfo(p) EXCEPT !.total_volume = Val(v)])]

\* volumes at and just above every band edge of the liquidity table
LestvicaVolumna ==
  { 0, 1, 1000, 1001, 10000, 10001, 100000, 100001, 500000, 500001, 1000000,
    1000001, 2000000, 2000001, 5000000, 5000001, 10000000, 10000001,
    20000000, 20000001, 300000000 }

C19_HitraFunkcijaKlasificira ==
  JeTekel("analiziraj_kovanec")
  => /\ JeTekel("baza")
     /\ ~(pc = "izjema" /\ rezultat.tip = "TypeError")

\* the detector took the dynamic path for the payload
DinamicnaPot ==
  /\ JeTekel("prevare")
  /\ pc \in {"oceni", "vrnjeno"}
  /\ ~indikatorji.je_znana_prevara

\* the points for hype words, phrases, a small market cap (above 0) and the
\* ATH drawdown
TockeBrezVolumna(p) ==
    5 * Cardinality({ i \in 1..Len(sumljiva_imena) :
          Vsebuje(Lower(GetOr(p.basic_info.name, <<>>)), sumljiva_imena[i]) })
  + 10 * Cardinality({ i \in 1..Len(rdece_fraze) :
          Vsebuje(Besedilo(p), rdece_fraze[i]) })
  + (IF _dobi_rang(p) > 200 /\ _dobi_trzno_kap(p) > 0
     THEN IF _dobi_trzno_kap(p) < 100 THEN 15
          ELSE IF _dobi_trzno_kap(p) < 1000 THEN 8 ELSE 0
     ELSE 0)
  + (IF _dobi_rang(p) > 100
     THEN IF AthPrevare(p) < -990 THEN 25
          ELSE IF AthPrevare(p) < -950 THEN 15 ELSE 0
     ELSE 0)

\* C20 as stated: the probability is min(points / 100, 0.95), the volume rule
\* (rank > 100: +20 for volume < 1000, else +10 for volume < 10000) depending
\* only on rank and volume
C20_VolumenBrezPogojaKapitalizacije ==
  DinamicnaPot
  => indikatorji.verjetnost_prevare =
       Min( TockeBrezVolumna(podatki)
            + (IF _dobi_rang(podatki) > 100
               THEN IF _dobi_volumen(podatki) < 10 THEN 20
                    ELSE IF _dobi_volumen(podatki) < 100 THEN 10 ELSE 0
               ELSE 0),
            95 )

\* C20: on the dynamic path the probability is min(points / 100, 0.95), where
\* points sums +5 per hype word of the name, +10 per phrase of the
\* description, the market cap rule (rank > 200), the ATH rule (rank > 100)
\* and the volume rule (rank > 100: +20 for volume < 1000, else +10 for
\* volume < 10000), the volume rule adding points only for a market cap above 0
C20_VolumenSPogojemKapitalizacije ==
  DinamicnaPot
  => indikatorji.verjetnost_prevare =
       Min( TockeBrezVolumna(podatki)
            + (IF _dobi_rang(podatki) > 100 /\ _dobi_trzno_kap(podatki) > 0
               THEN IF _dobi_volumen(podatki) < 10 THEN 20
                    ELSE IF _dobi_volumen(podatki) < 100 THEN 10 ELSE 0
               ELSE 0),
            95 )

\* a low-ranked payload with no market cap and no volume: neither rule adds
\* points, the hype words of the name do
C20_BrezKapitalizacijeBrezTock ==
  /\ DinamicnaPot
  /\ _dobi_rang(podatki) = 5000
  /\ _dobi_trzno_kap(podatki) = 0
  /\ _dobi_volumen(podatki) = 0
  /\ podatki.basic_info.name = Val(IME_SafeMoon_Inu)
  /\ podatki.basic_info.description.t = "absent"
  /\ AthPrevare(podatki) = -500
  /\ indikatorji.verjetnost_prevare = 15

\* C21: on the dynamic path the scam type is assigned only for a probability
\* above 0.6, in this order: RUG_PULL when the ATH change is below -99 % and
\* the volume below 10 000; otherwise SUSPECTED_PONZI when the description
\* contains 'passive income' or 'guaranteed'; otherwise PUMP_AND_DUMP. For a
\* probability of at most 0.6 the type stays Unknown
C21_TipNaDinamicniPoti ==
  DinamicnaPot
  => IF indikatorji.verjetnost_prevare <= 60
     THEN indikatorji.tip_prevare = "NEZNANO"
     ELSE IF AthPrevare(podatki) < -990 /\ _dobi_volumen(podatki) < 100
     THEN indikatorji.tip_prevare = "RUG_PULL"
     ELSE IF \/ Vsebuje(Besedilo(podatki), S_passive_income)
             \/ Vsebuje(Besedilo(podatki), S_guaranteed)
     THEN indikatorji.tip_prevare = "SUMLJIVA_PONZI"
     ELSE indikatorji.tip_prevare = "PUMP_AND_DUMP"

\* a payload with probability above 0.6, an ATH change below -99 %, a
\* description with 'guaranteed' and a volume of 15 000: the volume keeps it
\* from RUG_PULL and the description makes it SUSPECTED_PONZI
C21_PonziKljubPadcu ==
  /\ DinamicnaPot
  /\ indikatorji.verjetnost_prevare > 60
  /\ AthPrevare(podatki) = -995
  /\ _dobi_volumen(podatki) = 150
  /\ Vsebuje(Besedilo(podatki), S_guaranteed)
  /\ indikatorji.tip_prevare = "SUMLJIVA_PONZI"

\* the member of TipPrevare a type label names: the one whose value is the
\* label with '_' read as ' ', in any letter case; Unknown when there is none
ClanPoOznaki(oznaka) ==
  LET iskano == Upper(Replace(oznaka, "_", " "))
  IN  IF \E i \in 1..Len(TipPrevare) : Upper(TipPrevare[i].vrednost) = iskano
      THEN TipPrevare[CHOOSE i \in 1..Len(TipPrevare) :
                        Upper(TipPrevare[i].vrednost) = iskano].clan
      ELSE "NEZNANO"

\* C22: on a registry match in the scam detector, by name or by coin id, the
\* scam type is the TipPrevare member named by the type label of the record
\* ('rug_pull' gives RUG_PULL); only a label that names no member gives Unknown
C22_TipIzOznakeZapisa ==
  (JeTekel("prevare") /\ pc \in {"oceni", "vrnjeno"}
     /\ indikatorji.je_znana_prevara)
  => indikatorji.tip_prevare =
       ClanPoOznaki(GetOr(indikatorji.podatki_znane_prevare.scam_type, S_unknown))

\* the strengths and weaknesses with every sub-metric that has phrases held
\* against the thresholds 8 and 5
PoEnotnihPragih(teh, eko, soc, ind) ==
  LET pari ==
        << Presoja(teh.dostopnost_kode, 80, 50,
                   "Odprta koda", "Omejena dostopnost kode"),
           Presoja(teh.kvaliteta_arhitekture, 80, 50,
                   "Mocna razvojna aktivnost", "Pomanjkljiva razvojna aktivnost"),
           Presoja(teh.decentralizacija, 80, 50,
                   "Visoka stopnja decentralizacije", "Vprasljiva decentralizacija"),
           Presoja(teh.varnostni_mehanizmi, 80, 50,
                   "Odlicni varnostni mehanizmi", "Pomanjkljivi varnostni mehanizmi"),
           Presoja(eko.globina_likvidnosti, 80, 50,
                   "Odlicna likvidnost", "Nizka likvidnost"),
           Presoja(eko.vzdrznost_tokenomike, 80, 50,
                   "Vzdrzna tokenomika", "Vprasljiva tokenomika"),
           Presoja(eko.koncentracija_lastnistva, 80, 50,
                   "Dobra distribucija lastnistva", "Visoka koncentracija lastnistva"),
           Presoja(eko.indikatorji_manipulacije, 80, 50,
                   "Nizka volatilnost", "Visoka volatilnost - mozna manipulacija"),
           Presoja(soc.angaziranost_skupnosti, 80, 50,
                   "Velika in aktivna skupnost", "Majhna skupnost"),
           Presoja(soc.transparentnost_ekipe, 80, 50,
                   "Transparentna ekipa", "Netransparentna ekipa"),
           Presoja(soc.kvaliteta_dokumentacije, 80, 50,
                   "Obsezna dokumentacija", "Pomanjkljiva dokumentacija"),
           IF ind.verjetnost_prevare > 50
           THEN [p |-> <<>>, s |-> <<"Visoka verjetnost prevare">>]
           ELSE IF ind.verjetnost_prevare > 30
           THEN [p |-> <<>>, s |-> <<"Nekateri indikatorji prevare">>]
           ELSE IF ind.verjetnost_prevare < 10
           THEN [p |-> <<"Nizka verjetnost prevare">>, s |-> <<>>]
           ELSE [p |-> <<>>, s |-> <<>>] >>
  IN  [ prednosti |-> Prvih(7, Zlepi(pari, "p")),
        slabosti |-> Prvih(7, Zlepi(pari, "s")) ]

\* C23: every sub-metric is held against the same thresholds: a score of at
\* least 8 adds its strength phrase and a score below 5 its weakness phrase;
\* the fraud probability adds a strength below 0.1 and a weakness above 0.3
\* (in stronger words above 0.5)
C23_EnotniPragi ==
  (pc = "vrnjeno" /\ rezultat.vrsta = "porocilo")
  => LET po_pragih == PoEnotnihPragih(rezultat.tehnicne_metrike,
                                      rezultat.ekonomske_metrike,
                                      rezultat.socialne_metrike, indikatorji)
     IN  /\ rezultat.prednosti = po_pragih.prednosti
         /\ rezultat.slabosti = po_pragih.slabosti

\* the summed follower and subscriber count of the three channels
SkupajSkupnost(p) ==
    p.basic_info.community_data.twitter_followers
  + p.basic_info.community_data.reddit_subscribers
  + p.basic_info.community_data.telegram_channel_user_count

\* C24: community_engagement comes from the rank-only band exactly when all
\* three counts are zero or absent: with a positive summed count it comes
\* from the count bands, so the rank has no part in it
C24_PozitivnaVsotaBrezRanga ==
  (pc = "vrnjeno" /\ rezultat.vrsta = "porocilo" /\ SkupajSkupnost(podatki) > 0)
  => \A r \in Rangi :
        analiziraj_socialne([podatki EXCEPT !.market_data.market_cap_rank = r])
          .angaziranost_skupnosti
        = rezultat.socialne_metrike.angaziranost_skupnosti

\* some category label of payload p contains, in any letter case, one of the
\* given strings
ImaOznako(p, nizi) ==
  \E i \in 1..Len(p.basic_info.categories) :
     \E niz \in nizi : Vsebuje(Lower(p.basic_info.categories[i]), niz)

NajnizjePodocene ==
  [ teh |-> [ dostopnost_kode |-> 40, kvaliteta_arhitekture |-> 40,
              decentralizacija |-> 50, varnostni_mehanizmi |-> 40,
              status_revizije |-> 50, tveganje_pogodbe |-> 60 ],
    eko |-> [ pravicnost_distribucije |-> 50, mehanizem_inflacije |-> 50,
              vesting_urnik |-> 60, koncentracija_lastnistva |-> 50,
              globina_likvidnosti |-> 40, indikatorji_manipulacije |-> 50,
              vzdrznost_tokenomike |-> 70 ],
    soc |-> [ transparentnost_ekipe |-> 40, izkusenost_ekipe |-> 60,
              kvaliteta_dokumentacije |-> 50, angaziranost_skupnosti |-> 60,
              pristop_marketinga |-> 50, prisotnost_na_omrezjih |-> 65,
              zdravje_skupnosti |-> 65 ] ]

NajvisjePodocene ==
  [ teh |-> [ dostopnost_kode |-> 85, kvaliteta_arhitekture |-> 95,
              decentralizacija |-> 95, varnostni_mehanizmi |-> 95,
              status_revizije |-> 95, tveganje_pogodbe |-> 80 ],
    eko |-> [ pravicnost_distribucije |-> 95, mehanizem_inflacije |-> 90,
              vesting_urnik |-> 95, koncentracija_lastnistva |-> 90,
              globina_likvidnosti |-> 95, indikatorji_manipulacije |-> 90,
              vzdrznost_tokenomike |-> 95 ],
    soc |-> [ transparentnost_ekipe |-> 90, izkusenost_ekipe |-> 95,
              kvaliteta_dokumentacije |-> 90, angaziranost_skupnosti |-> 95,
              pristop_marketinga |-> 90, prisotnost_na_omrezjih |-> 95,
              zdravje_skupnosti |-> 90 ] ]

\* every sub-score of metric set m lies between the two given sets
MedPodocenami(m, najnizje, najvisje) ==
  \A f \in DOMAIN m : m[f] >= najnizje[f] /\ m[f] <= najvisje[f]

\* C26: on the scored path the final score is above 25 and below 93: the band
\* 'below 25' of the risk tier and the grade A+ are never produced, and a
\* scored result is CRITICAL only through a fraud probability above 0.8.  The
\* sub-scores of every report lie between the lowest and the highest value of
\* their tables, and the final score of the lowest values under the largest
\* penalty, and of the highest values under none, lie in the same range
C26_OcenaMed25In93 ==
  /\ KoncnaOcena(TehnicneMetrike_izracunaj_oceno(NajnizjePodocene.teh),
                 EkonomskeMetrike_izracunaj_oceno(NajnizjePodocene.eko),
                 SocialneMetrike_izracunaj_oceno(NajnizjePodocene.soc), 95)
       > Ocena(25)
  /\ KoncnaOcena(TehnicneMetrike_izracunaj_oceno(NajvisjePodocene.teh),
                 EkonomskeMetrike_izracunaj_oceno(NajvisjePodocene.eko),
                 SocialneMetrike_izracunaj_oceno(NajvisjePodocene.soc), 0)
       < Ocena(93)
  /\ (pc = "vrnjeno" /\ rezultat.vrsta = "porocilo")
     => /\ MedPodocenami(rezultat.tehnicne_metrike,
                         NajnizjePodocene.teh, NajvisjePodocene.teh)
        /\ MedPodocenami(rezultat.ekonomske_metrike,
                         NajnizjePodocene.eko, NajvisjePodocene.eko)
        /\ MedPodocenami(rezultat.socialne_metrike,
                         NajnizjePodocene.soc, NajvisjePodocene.soc)
        /\ rezultat.verjetnost_prevare <= 95
        /\ koncna > Ocena(25)
        /\ koncna < Ocena(93)
        /\ rezultat.ocena_crka # "A+"
        /\ rezultat.stopnja_tveganja = KRITICNO
           => rezultat.verjetnost_prevare > 80

\* the report with the lowest score of the search: 26.13, CRITICAL through a
\* probability of 0.95
C26_NajnizjaOcena ==
  /\ OcenjenPayload(NajslabsiPayload)
  /\ rezultat.koncna_ocena = 2613
  /\ rezultat.verjetnost_prevare = 95
  /\ rezultat.stopnja_tveganja = KRITICNO
  /\ rezultat.ocena_crka = "F"

\* the number of weakness tests that hold for the given sub-scores and
\* fraud probability
SteviloSlabosti(teh, eko, soc, verjetnost) ==
  Cardinality(
    { f \in {"dostopnost_kode", "kvaliteta_arhitekture", "decentralizacija",
             "varnostni_mehanizmi"} : teh[f] < 50 }
    \cup { f \in {"globina_likvidnosti", "vzdrznost_tokenomike",
                   "koncentracija_lastnistva"} : eko[f] < 50 }
    \cup { f \in {"indikatorji_manipulacije"} : eko[f] < 40 }
    \cup { f \in {"angaziranost_skupnosti", "transparentnost_ekipe",
                   "kvaliteta_dokumentacije"} : soc[f] < 50 }
    \cup { f \in {"verjetnost_prevare"} : verjetnost > 30 } )

\* the number of strength tests that hold
SteviloPrednosti(teh, eko, soc, verjetnost) ==
  Cardinality(
    { f \in {"dostopnost_kode", "kvaliteta_arhitekture", "decentralizacija"} :
        teh[f] >= 80 }
    \cup { f \in {"varnostni_mehanizmi"} : teh[f] >= 85 }
    \cup { f \in {"globina_likvidnosti"} : eko[f] >= 85 }
    \cup { f \in {"vzdrznost_tokenomike", "koncentracija_lastnistva",
                   "indikatorji_manipulacije"} : eko[f] >= 80 }
    \cup { f \in {"angaziranost_skupnosti", "transparentnost_ekipe",
                   "kvaliteta_dokumentacije"} : soc[f] >= 80 }
    \cup { f \in {"verjetnost_prevare"} : verjetnost <= 30 /\ verjetnost < 10 } )

\* C27: the weaknesses built from the sub-scores are at most 6, so the
\* truncation to 7 never removes a weakness: the list of a report holds one
\* entry per weakness test that holds, and even the lowest value of every
\* table under the largest probability gives 6; the strengths are the first
\* 7 of the strength tests that hold
C27_NajvecSestSlabosti ==
  /\ SteviloSlabosti(NajnizjePodocene.teh, NajnizjePodocene.eko,
                     NajnizjePodocene.soc, 95) <= 6
  /\ (pc = "vrnjeno" /\ rezultat.vrsta = "porocilo")
     => /\ Len(rezultat.slabosti) <= 6
        /\ Len(rezultat.slabosti) =
             SteviloSlabosti(rezultat.tehnicne_metrike,
                             rezultat.ekonomske_metrike,
                             rezultat.socialne_metrike,
                             rezultat.verjetnost_prevare)
        /\ Len(rezultat.prednosti) =
             Min(7, SteviloPrednosti(rezultat.tehnicne_metrike,
                                     rezultat.ekonomske_metrike,
                                     rezultat.socialne_metrike,
                                     rezultat.verjetnost_prevare))

\* a report with six weaknesses
C27_SestSlabosti ==
  /\ pc = "vrnjeno"
  /\ rezultat.vrsta = "porocilo"
  /\ Len(rezultat.slabosti) = 6
  /\ rezultat.slabosti[6] = "Visoka verjetnost prevare"

\* the calls of the log before call i that inserted under the identifier of
\* call i, letter case aside
VstavljanjaPred(i) ==
  { j \in 1..(i - 1) :
      /\ klici[j] = "dodaj_prevaro"
      /\ Lower(identifikatorji[j]) = Lower(identifikatorji[i]) }

Najvecji(S) == CHOOSE i \in S : \A j \in S : i >= j

\* C28: a lookup je_znana_prevara(id) made after dodaj_prevaro(id, record),
\* with no later insertion under the same id, returns (True, record), even
\* when other keys of the registry differ from id only by spaces,
\* underscores or hyphens
C28_VstavljenoSeNajde ==
  \A i \in 1..Len(klici) :
     (klici[i] = "je_znana_prevara" /\ VstavljanjaPred(i) # {})
     => rezultati[i] = rezultati[Najvecji(VstavljanjaPred(i))]

\* identifier x equals, letter case aside and with spaces and underscores
\* read as hyphens, a key of registry b, or a name or symbol that a record of
\* b holds
UjemaSeZRegistrom(b, x) ==
  \E k \in 1..Len(b) :
     \/ Normaliziraj(b[k].kljuc) = Normaliziraj(x)
     \/ b[k].zapis.name.t = "val" /\ Lower(b[k].zapis.name.v) = Lower(x)
     \/ b[k].zapis.symbol.t = "val" /\ Lower(b[k].zapis.symbol.v) = Lower(x)

\* C29: je_znana_prevara(x) reports found only when x equals, letter case
\* aside, a registry key (spaces and underscores normalised to hyphens) or a
\* name or symbol present in some record; the empty identifier never matches
C29_NajdenoLeZUjemanjem ==
  \A i \in 1..Len(rezultati) :
     rezultati[i].najden
     => /\ UjemaSeZRegistrom(baza, identifikatorji[i])
        /\ identifikatorji[i] # <<>>

\* C30: one provider request ends within _max_ponovitev attempts: no attempt
\* follows a success or a 404, the first success returns the body, the first
\* 404 returns None, and a request whose attempts all failed raises
\* RuntimeError exactly when the attempts are used up; a classification
\* calls the provider fetch at most once.
C30_ZahtevaSeKonca ==
  LET H == PoskusiZahteve
      n == Len(H)
      vrnila == n > 0 /\ pc = (IF V_klasifikaciji THEN "odgovor" ELSE "vrnjeno")
  IN  /\ n <= _max_ponovitev
      /\ \A i \in 1..(n - 1) : H[i] \in IzidiPonovitve
      /\ pc = "zahteva" =>
           /\ n < _max_ponovitev
           /\ \A i \in 1..n : H[i] \in IzidiPonovitve
      /\ vrnila =>
           /\ H[n] \in {"200", "404"}
           /\ H[n] = "200" => odgovor \in PayloadsZahteve
           /\ H[n] = "404" => odgovor = BrezPodatkov
      /\ (n > 0 /\ H[n] \in IzidiPonovitve /\ pc # "zahteva") =>
           /\ n = _max_ponovitev
           /\ pc = "izjema"
           /\ rezultat = Izjema("RuntimeError",
                                IF H[n] = "429" THEN "rate limit" ELSE H[n])
      /\ (n > 0 /\ H[n] \in {"200", "404"}) => pc # "zahteva"
      /\ Cardinality({i \in 1..Len(klici) : klici[i] = "klient"}) <= 1

\* the classifier's request used its three attempts and the error reached
\* the caller of klasificiraj
C30_TrijeNeuspeliPoskusi ==
  /\ pc = "izjema"
  /\ V_klasifikaciji
  /\ PoskusiZahteve = <<"429", "HTTPError", "RequestException">>
  /\ rezultat = Izjema("RuntimeError", "RequestException")

====
